---- MODULE Spec2Model ----
(***************************************************************************)
(* Model of the bot decision loop of rusty-shooter (src/src/bot.rs) with   *)
(* the Character it owns (src/src/character.rs) and the frame loop that    *)
(* drives it (src/src/main.rs).                                            *)
(*                                                                         *)
(* Units: time in milliseconds (0.5 s = 500), lengths in decimetres        *)
(* (2.0 = 20), health and armor in points.  Vectors are <<x, y, z>>.       *)
(* Orientation and pose arithmetic (yaw, pitch, velocities, blended poses) *)
(* has no effect on the control flow modelled here and is left out.        *)
(***************************************************************************)
EXTENDS Integers, Sequences, FiniteSets, TLC

\* ------------------------------------------------------------------ bounds
\* Frames of the main loop a behaviour runs through.
MaxFrames == 8
\* Events a clip's queue keeps before further signals are dropped.
MaxPending == 2
\* Length of the hit-reaction clip (clip time, ms).
HitReactionLength == 600

\* Actors in a list of target descriptors.
MaxTargets == 3

\* Weapons the bot is given.
MaxWeapons == 1

\* The fixed time step of the main loop (ms).
TimeStep == 250

\* frames granted to a bot that dies in the last frame of its life
MaxDyingFrames == 6
\* Ammo of a weapon and the game time of the cadence check, in ms.
MaxAmmo == 2
MaxElapsed == 600
\* Ticks with a look direction that a bot aims through.
MaxAimTicks == 3
\* Contacts of a projectile's body in one update.
MaxContacts == 2
\* Projectiles fired in a behaviour.
MaxProjectiles == 1

\* Tick deltas handed to the bot (ms).
Deltas == {TimeStep}
\* Amounts of the damage calls (points).
DamageAmounts == {100, 150}

\* --------------------------------------------------------------- constants
NONE == "NONE"
\* Option values: None, or Some(v)
None == << >>
Some(v) == << v >>
SelfHandle == "bot"
SelfBody == "bot_body"
WeaponHandles == <<"w1", "w2", "w3">>
Origin == <<0, 0, 0>>

F32_MAX == -1

HIT_SIGNAL == 1
STEP_SIGNAL == 1

Min(a, b) == IF a < b THEN a ELSE b

\* ---------------------------------------------------------------- vectors
Sub(a, b) == <<a[1] - b[1], a[2] - b[2], a[3] - b[3]>>

SqrLen(v) == v[1] * v[1] + v[2] * v[2] + v[3] * v[3]

SqrDistance(a, b) == SqrLen(Sub(a, b))

\* d.len() <= r, with r in decimetres
LenAtMost(v, r) == SqrLen(v) <= r * r

LessThanClosestFlipped(sqr_d, closest) == closest = F32_MAX \/ sqr_d > closest

\* sqr_d < closest_distance, the latter starting at f32::MAX
LessThanClosest(sqr_d, closest) == closest = F32_MAX \/ sqr_d < closest

\* ------------------------------------------------- blend state machine
\* A transition of a machine: name, source, dest, blend time, rule.
Transition(name, source, dest, transition_time, rule) ==
    [name |-> name, source |-> source, dest |-> dest,
     transition_time |-> transition_time, rule |-> rule]

\* Machine::new, add_state, set_entry_state: the entry state is the active
\* state when one is set, else the first state added is.
MachineNew(states, entry) ==
    [active_state |-> IF entry # NONE THEN entry ELSE states[1],
     active_transition |-> 0,
     elapsed_time |-> 0]

\* The transitions that may fire: source is the active state, the rule is
\* set and true.
Fireable(m, transitions, parameters) ==
    {i \in 1..Len(transitions) :
        /\ transitions[i].source = m.active_state
        /\ transitions[i].dest # m.active_state
        /\ transitions[i].rule \in DOMAIN parameters
        /\ parameters[transitions[i].rule]}

FindTransitionLast(m, transitions, parameters) ==
    LET c == Fireable(m, transitions, parameters)
    IN  IF c = {} THEN 0 ELSE CHOOSE i \in c : \A j \in c : i >= j

\* First match in declaration order, 0 when none.
FindTransition(m, transitions, parameters) ==
    LET c == Fireable(m, transitions, parameters)
    IN  IF c = {} THEN 0 ELSE CHOOSE i \in c : \A j \in c : i <= j

\* Transition::is_done after Transition::update(dt)
IsDone(elapsed_time, transition_time) == elapsed_time >= transition_time

\* Machine::evaluate_pose(dt): when no transition is active the first
\* fireable one starts; the active transition advances by dt and, once
\* done, hands the machine to its destination state.  The result carries
\* the machine and what happened on the call: the transition fired, the
\* transition completed, and the deltas that ran from firing to completion.
EvaluatePose(m, transitions, parameters, dt) ==
    LET found == IF m.active_transition = 0 /\ m.active_state # NONE
                 THEN FindTransition(m, transitions, parameters) ELSE 0
        m1 == IF found # 0
              THEN [active_state |-> NONE, active_transition |-> found,
                    elapsed_time |-> 0]
              ELSE m
    IN  IF m1.active_transition = 0
        THEN [machine |-> m1, fired |-> 0, completed |-> 0, blend_total |-> 0]
        ELSE LET t == transitions[m1.active_transition]
                 e == m1.elapsed_time + dt
             IN  IF IsDone(e, t.transition_time)
                 THEN [machine |-> [active_state |-> t.dest,
                                    active_transition |-> 0,
                                    elapsed_time |-> 0],
                       fired |-> found,
                       completed |-> m1.active_transition,
                       blend_total |-> e]
                 ELSE [machine |-> [m1 EXCEPT !.elapsed_time = e],
                       fired |-> found, completed |-> 0, blend_total |-> 0]

\* ------------------------------------------------- locomotion machine
LocomotionStates == <<"Jump", "Falling", "Walk", "Idle">>

LocomotionEntry == "Idle"

LocomotionTransitionsShort ==
    << Transition("Walk->Idle", "Walk", "Idle", 500, "WalkToIdle"),
       Transition("Walk->Jump", "Walk", "Jump", 500, "WalkToJump"),
       Transition("Idle->Walk", "Idle", "Walk", 200, "IdleToWalk"),
       Transition("Idle->Jump", "Idle", "Jump", 500, "IdleToJump"),
       Transition("Jump->Falling", "Jump", "Falling", 500, "JumpToFalling"),
       Transition("Falling->Idle", "Falling", "Idle", 500, "FallingToIdle") >>

LocomotionTransitionsJumpFirst ==
    << Transition("Walk->Jump", "Walk", "Jump", 500, "WalkToJump"),
       Transition("Walk->Idle", "Walk", "Idle", 500, "WalkToIdle"),
       Transition("Idle->Walk", "Idle", "Walk", 500, "IdleToWalk"),
       Transition("Idle->Jump", "Idle", "Jump", 500, "IdleToJump"),
       Transition("Jump->Falling", "Jump", "Falling", 500, "JumpToFalling"),
       Transition("Falling->Idle", "Falling", "Idle", 500, "FallingToIdle") >>

LocomotionTransitions ==
    << Transition("Walk->Idle", "Walk", "Idle", 500, "WalkToIdle"),
       Transition("Walk->Jump", "Walk", "Jump", 500, "WalkToJump"),
       Transition("Idle->Walk", "Idle", "Walk", 500, "IdleToWalk"),
       Transition("Idle->Jump", "Idle", "Jump", 500, "IdleToJump"),
       Transition("Jump->Falling", "Jump", "Falling", 500, "JumpToFalling"),
       Transition("Falling->Idle", "Falling", "Idle", 500, "FallingToIdle") >>

LocomotionParametersSwapped(in_close_combat, need_jump, has_ground_contact) ==
    [IdleToWalk |-> in_close_combat,
     WalkToIdle |-> ~in_close_combat,
     WalkToJump |-> need_jump,
     IdleToJump |-> need_jump,
     JumpToFalling |-> ~has_ground_contact,
     FallingToIdle |-> has_ground_contact]

\* The parameters LocomotionMachine::apply sets before evaluating.
LocomotionParameters(in_close_combat, need_jump, has_ground_contact) ==
    [IdleToWalk |-> ~in_close_combat,
     WalkToIdle |-> in_close_combat,
     WalkToJump |-> need_jump,
     IdleToJump |-> need_jump,
     JumpToFalling |-> ~has_ground_contact,
     FallingToIdle |-> has_ground_contact]

LocomotionApply(m, dt, in_close_combat, need_jump, has_ground_contact) ==
    EvaluatePose(m, LocomotionTransitions,
                 LocomotionParameters(in_close_combat, need_jump,
                                      has_ground_contact), dt)

\* LocomotionMachine::is_walking
IsWalking(m) ==
    \/ m.active_state = "Walk"
    \/ /\ m.active_transition # 0
       /\ LocomotionTransitions[m.active_transition].dest = "Walk"

\* ----------------------------------------------------- combat machine
CombatStates == <<"HitReaction", "Aim", "Whip">>

\* CombatMachine::new sets no entry state.
CombatEntry == NONE

CombatTransitions ==
    << Transition("Aim->Whip", "Aim", "Whip", 500, "AimToWhip"),
       Transition("Whip->Aim", "Whip", "Aim", 500, "WhipToAim"),
       Transition("Whip->HitReaction", "Whip", "HitReaction", 200,
                  "WhipToHitReaction"),
       Transition("Aim->HitReaction", "Aim", "HitReaction", 200,
                  "AimToHitReaction"),
       Transition("HitReaction->Aim", "HitReaction", "Aim", 500,
                  "HitReactionToAim") >>

CombatParameters(in_close_combat, was_damaged, can_aim) ==
    [WhipToAim |-> ~in_close_combat,
     AimToWhip |-> in_close_combat,
     WhipToHitReaction |-> was_damaged,
     AimToHitReaction |-> was_damaged,
     HitReactionToAim |-> can_aim]

CombatApply(m, dt, in_close_combat, was_damaged, can_aim) ==
    EvaluatePose(m, CombatTransitions,
                 CombatParameters(in_close_combat, was_damaged, can_aim), dt)

CanShootAnyState(m) == m.active_state # "HitReaction"

\* Bot::can_shoot
CanShoot(m) == m.active_state = "Aim"

\* ------------------------------------------------------ dying machine
DyingStates == <<"Dying", "Dead">>

DyingEntry == "Dying"

DyingTransitionsBack ==
    << Transition("Dying->Dead", "Dying", "Dead", 1500, "DyingToDead"),
       Transition("Dead->Dying", "Dead", "Dying", 1500, "DyingToDead") >>

DyingTransitions ==
    << Transition("Dying->Dead", "Dying", "Dead", 1500, "DyingToDead") >>

DyingParametersNever(is_dead) == [DyingToDead |-> FALSE]

DyingParameters(is_dead) == [DyingToDead |-> is_dead]

DyingApply(m, dt, is_dead) ==
    EvaluatePose(m, DyingTransitions, DyingParameters(is_dead), dt)

\* Bot::can_be_removed
CanBeRemoved(m) == m.active_state = "Dead"

\* ---------------------------------------------------------- character
IsDeadBelowZero(health_) == health_ < 0

\* Character::is_dead
IsDead(health_) == health_ <= 0

\* Character::damage(amount) on [health, armor]
Abs(x) == IF x < 0 THEN -x ELSE x

DamageNoSpill(c, amount) ==
    LET a == Abs(amount)
    IN  IF c.armor > 0
        THEN [c EXCEPT !.armor = c.armor - a]
        ELSE [c EXCEPT !.health = c.health - a]

Damage(c, amount) ==
    LET a == Abs(amount)
    IN  IF c.armor > 0
        THEN LET armor1 == c.armor - a
             IN  [c EXCEPT !.armor = armor1,
                           !.health = IF armor1 < 0 THEN c.health + armor1
                                      ELSE c.health]
        ELSE [c EXCEPT !.health = c.health - a]

\* Character::current_weapon: the handle at the index, NONE out of range.
\* current_weapon is a 0-based index.
CurrentWeapon(c) ==
    IF c.current_weapon < Len(c.weapons)
    THEN c.weapons[c.current_weapon + 1] ELSE NONE

\* ----------------------------------------------------------- messages
Msg(type, subject, amount, note) ==
    [type |-> type, subject |-> subject, amount |-> amount, note |-> note]

\* Character::request_current_weapon_visible(state), the bot has a sender
RequestCurrentWeaponVisible(c, state) ==
    IF c.current_weapon < Len(c.weapons)
    THEN << Msg("ShowWeapon", c.weapons[c.current_weapon + 1], 0, state) >>
    ELSE << >>

\* Character::set_current_weapon(i): [character, sent]
SetCurrentWeapon(c, i) ==
    IF i < Len(c.weapons)
    THEN LET c1 == [c EXCEPT !.current_weapon = i]
         IN  [character |-> c1,
              sent |-> RequestCurrentWeaponVisible(c, "hide")
                       \o RequestCurrentWeaponVisible(c1, "show")]
    ELSE [character |-> c, sent |-> << >>]

\* Character::add_weapon(weapon): [character, sent]
AddWeaponTo(c, weapon) ==
    LET c1 == [c EXCEPT !.current_weapon = Len(c.weapons),
                        !.weapons = Append(c.weapons, weapon)]
    IN  [character |-> c1,
         sent |-> [i \in 1..Len(c.weapons) |->
                      Msg("ShowWeapon", c.weapons[i], 0, "hide")]
                  \o RequestCurrentWeaponVisible(c1, "show")]

\* ------------------------------------------------ perception, planning
\* The 'hit_loop of select_target: a static triangle among the hits puts
\* the target behind something; a body hit, the bot's own or another,
\* moves on to the next hit.
RECURSIVE BehindSomething(_, _, _)
BehindSomething(hits, i, body_) ==
    IF i > Len(hits) THEN FALSE
    ELSE IF hits[i].kind = "StaticTriangle" THEN TRUE
    ELSE IF hits[i].body = body_ THEN BehindSomething(hits, i + 1, body_)
    ELSE BehindSomething(hits, i + 1, body_)

\* Ray::from_two_points is None for coinciding points; ray_cast fills the
\* hit list of the ray.
Occluded(position, desc, ray_cast, body_) ==
    /\ position # desc.position
    /\ BehindSomething(ray_cast[desc.position], 1, body_)

\* The 'target_loop: acc is [target, closest_distance].
RECURSIVE TargetLoop(_, _, _, _, _, _, _, _)
TargetLoop(targets, i, acc, self_handle, body_, position, frustum_, ray_cast) ==
    IF i > Len(targets) THEN acc
    ELSE LET desc == targets[i]
             sqr_d == SqrDistance(position, desc.position)
             acc1 ==
                IF /\ desc.handle # self_handle
                   /\ desc.position \in frustum_
                   /\ ~Occluded(position, desc, ray_cast, body_)
                   /\ LessThanClosest(sqr_d, acc.closest_distance)
                THEN [target |-> Some([position |-> desc.position,
                                       handle |-> desc.handle]),
                      closest_distance |-> sqr_d]
                ELSE acc
         IN  TargetLoop(targets, i + 1, acc1, self_handle, body_, position,
                        frustum_, ray_cast)

SelectTargetStartKept(previous) == previous

\* What select_target starts from: the target is reset before the loop.
SelectTargetStart(previous) == None

\* Bot::select_target: the new value of self.target.
SelectTarget(previous, self_handle, body_, position, frustum_, targets, ray_cast) ==
    TargetLoop(targets, 1,
               [target |-> SelectTargetStart(previous),
                closest_distance |-> F32_MAX],
               self_handle, body_, position, frustum_, ray_cast).target

RECURSIVE PoiLoopPickedToo(_, _, _, _)
PoiLoopPickedToo(items, i, acc, self_position) ==
    IF i > Len(items) THEN acc
    ELSE LET item == items[i]
             sqr_d == SqrDistance(item.position, self_position)
             acc1 == IF LessThanClosest(sqr_d, acc.closest_distance)
                     THEN [point_of_interest |-> item.position,
                           closest_distance |-> sqr_d]
                     ELSE acc
         IN  PoiLoopPickedToo(items, i + 1, acc1, self_position)

\* Bot::select_point_of_interest: [point_of_interest, last_poi_update_time]
RECURSIVE PoiLoop(_, _, _, _)
PoiLoop(items, i, acc, self_position) ==
    IF i > Len(items) THEN acc
    ELSE LET item == items[i]
             sqr_d == SqrDistance(item.position, self_position)
             acc1 == IF ~item.picked_up
                        /\ LessThanClosest(sqr_d, acc.closest_distance)
                     THEN [point_of_interest |-> item.position,
                           closest_distance |-> sqr_d]
                     ELSE acc
         IN  PoiLoop(items, i + 1, acc1, self_position)

PoiUpdateDueEveryTick(elapsed, last_poi_update_time) ==
    elapsed - last_poi_update_time >= 250

\* The rate limit of the point of interest.
PoiUpdateDue(elapsed, last_poi_update_time) ==
    elapsed - last_poi_update_time >= 1250

SelectPointOfInterest(b, items, self_position, elapsed) ==
    IF PoiUpdateDue(elapsed, b.last_poi_update_time)
    THEN [b EXCEPT
            !.point_of_interest =
                PoiLoop(items, 1,
                        [point_of_interest |-> b.point_of_interest,
                         closest_distance |-> F32_MAX],
                        self_position).point_of_interest,
            !.last_poi_update_time = elapsed]
    ELSE b

SelectWeaponFirstOwned(c, ammo) ==
    IF CurrentWeapon(c) # NONE /\ ammo[CurrentWeapon(c)] = 0
    THEN SetCurrentWeapon(c, 0)
    ELSE [character |-> c, sent |-> << >>]

\* Bot::select_weapon: [character, sent]
SelectWeapon(c, ammo) ==
    IF CurrentWeapon(c) # NONE /\ ammo[CurrentWeapon(c)] = 0
    THEN LET loaded == {i \in 1..Len(c.weapons) : ammo[c.weapons[i]] > 0}
         IN  IF loaded = {} THEN [character |-> c, sent |-> << >>]
             ELSE SetCurrentWeapon(c,
                    (CHOOSE i \in loaded : \A j \in loaded : i <= j) - 1)
    ELSE [character |-> c, sent |-> << >>]

ReverseKept(s) == s

\* Vec::reverse
Reverse(s) == [i \in 1..Len(s) |-> s[Len(s) + 1 - i]]

FollowPathPastEnd(b, position) ==
    IF b.current_path_point < Len(b.path)
    THEN LET path_point == b.path[b.current_path_point + 1]
         IN  [b EXCEPT
                !.move_target = path_point,
                !.current_path_point =
                    IF LenAtMost(Sub(path_point, position), 20)
                    THEN b.current_path_point + 1
                    ELSE b.current_path_point]
    ELSE b

\* Path following in Bot::update: move_target and the cursor (0-based).
FollowPath(b, position) ==
    IF b.current_path_point < Len(b.path)
    THEN LET path_point == b.path[b.current_path_point + 1]
         IN  [b EXCEPT
                !.move_target = path_point,
                !.current_path_point =
                    IF /\ LenAtMost(Sub(path_point, position), 20)
                       /\ b.current_path_point < Len(b.path) - 1
                    THEN b.current_path_point + 1
                    ELSE b.current_path_point]
    ELSE b

\* The rate limit of the path rebuild in Bot::update.
PathRebuildDue(elapsed, last_path_rebuild_time) ==
    elapsed - last_path_rebuild_time >= 1000

\* rebuild_path asks the navmesh for a path once both closest-point
\* queries resolve.
BuildPathCalled(nav) == nav.from_index /\ nav.to_index

\* Bot::rebuild_path.  nav is the navmesh's answer: whether the two
\* closest-point queries resolve, whether build_path succeeds, the
\* waypoints it returns and, on failure, what it leaves in the buffer.
RebuildPath(b, nav, elapsed) ==
    IF BuildPathCalled(nav)
    THEN IF nav.build_ok
         THEN [b EXCEPT !.current_path_point = 0,
                        !.path = Reverse(nav.path),
                        !.last_path_rebuild_time = elapsed]
         ELSE [b EXCEPT !.current_path_point = 0,
                        !.path = IF nav.keeps_buffer THEN b.path ELSE << >>]
    ELSE b

NoNavmesh == [present |-> FALSE, from_index |-> FALSE, to_index |-> FALSE,
              build_ok |-> FALSE, keeps_buffer |-> TRUE, path |-> << >>]

\* ------------------------------------------------------ the bot's world
PNear == <<15, 0, 0>>
PNearHigh == <<10, 5, 0>>
PFar == <<50, 0, 0>>

Positions == {Origin, PNear, PNearHigh, PFar}

Descriptor(handle, position) == [handle |-> handle, position |-> position]

StaticHit == [kind |-> "StaticTriangle", body |-> NONE]
BodyHit(b) == [kind |-> "Body", body |-> b]

ClearRays == [p \in Positions |-> << >>]

Self == Descriptor(SelfHandle, Origin)

\* What the level shows the bot on a tick: descriptors and ray casts.
Scenes ==
    { [targets |-> << Self >>, ray_cast |-> ClearRays],
      [targets |-> << Self, Descriptor("a", PNear) >>, ray_cast |-> ClearRays],
      [targets |-> << Self, Descriptor("a", PNearHigh) >>,
       ray_cast |-> ClearRays],
      [targets |-> << Descriptor("a", PFar), Self, Descriptor("b", PNear) >>,
       ray_cast |-> [ClearRays EXCEPT ![PNear] = << StaticHit >>]] }

Frustums == {Positions, {}}

Ammos == { [w \in {WeaponHandles[i] : i \in 1..Len(WeaponHandles)} |-> 1],
           [w \in {WeaponHandles[i] : i \in 1..Len(WeaponHandles)} |->
               IF w = "w1" THEN 0 ELSE 1] }

\* -------------------------------------------------------------- kinds
\* A kind loaded from an id: Ok(kind) or Err.
Ok(kind) == [ok |-> TRUE, kind |-> kind]

Err == [ok |-> FALSE, kind |-> NONE]

\* The position of a kind in its enum, 0 when it is not there.
RECURSIVE IndexOf(_, _, _)
IndexOf(kinds, kind, i) ==
    IF i > Len(kinds) THEN 0
    ELSE IF kinds[i] = kind THEN i ELSE IndexOf(kinds, kind, i + 1)

BotKinds == << "Mutant", "Parasite", "Maw" >>

\* BotKind::id
BotKindId(kind) == IndexOf(BotKinds, kind, 1) - 1

BotKindFromIdDefaulting(id) ==
    IF id \in 0..2 THEN Ok(BotKinds[id + 1]) ELSE Ok("Mutant")

\* BotKind::from_id
BotKindFromId(id) ==
    IF id = 0 THEN Ok("Mutant")
    ELSE IF id = 1 THEN Ok("Parasite")
    ELSE IF id = 2 THEN Ok("Maw")
    ELSE Err

WeaponKinds == << "M4", "Ak47", "PlasmaRifle", "RocketLauncher" >>

\* WeaponKind::id
WeaponKindId(kind) == IndexOf(WeaponKinds, kind, 1) - 1

\* WeaponKind::new
WeaponKindNew(id) ==
    IF id = 0 THEN Ok("M4")
    ELSE IF id = 1 THEN Ok("Ak47")
    ELSE IF id = 2 THEN Ok("PlasmaRifle")
    ELSE IF id = 3 THEN Ok("RocketLauncher")
    ELSE Err

ProjectileKinds == << "Plasma", "Bullet", "Rocket" >>

\* ProjectileKind::id
ProjectileKindId(kind) == IndexOf(ProjectileKinds, kind, 1) - 1

\* ProjectileKind::new
ProjectileKindNew(id) ==
    IF id = 0 THEN Ok("Plasma")
    ELSE IF id = 1 THEN Ok("Bullet")
    ELSE IF id = 2 THEN Ok("Rocket")
    ELSE Err

\* -------------------------------------------------------------- state
VARIABLES
    time,                \* GameTime: [elapsed, delta]
    frames,              \* frames of the main loop run so far
    phase,               \* where Game::update stands: engine, level, messages
    character,           \* Character: [health, armor, weapons, current_weapon]
    bot,                 \* the other fields of Bot
    locomotion_machine,  \* Bot.locomotion_machine.machine
    combat_machine,      \* Bot.combat_machine.machine
    dying_machine,       \* Bot.dying_machine.machine
    animations,          \* the clips' state in scene.animations
    physics,             \* the bot's body: [position, ground_contact]
    sent,                \* messages sent and not yet handled
    tick,                \* what the last Bot::update computed
    probe,               \* a function on its own: its inputs and a twin bot
    observed             \* when the bot last did what: hit, poi, path query

vars == <<time, frames, phase, character, bot, locomotion_machine,
          combat_machine, dying_machine, animations, physics, sent, tick,
          probe, observed>>

\* Bot::default with the fields Bot::new sets (health 100 for every kind).
DefinitionHealth == 100

CharacterNew ==
    [health |-> DefinitionHealth, armor |-> 100, weapons |-> << >>,
     current_weapon |-> 0]

\* Bot::default
BotDefault ==
    [target |-> None,
     kind |-> "Mutant",
     model |-> NONE,
     last_health |-> 0,
     restoration_time |-> 0,
     path |-> << >>,
     move_target |-> Origin,
     current_path_point |-> 0,
     frustum |-> {},
     last_poi_update_time |-> -10000,
     point_of_interest |-> Origin,
     last_path_rebuild_time |-> -10000]

\* Machine::default: no state, nothing active.
MachineDefault ==
    [active_state |-> NONE, active_transition |-> 0, elapsed_time |-> 0]

BotNew ==
    [target |-> None,
     kind |-> "Parasite",
     model |-> "model",
     last_health |-> DefinitionHealth,
     restoration_time |-> 0,
     path |-> << >>,
     move_target |-> Origin,
     current_path_point |-> 0,
     frustum |-> {},
     last_poi_update_time |-> -10000,
     point_of_interest |-> Origin,
     last_path_rebuild_time |-> -10000]

NoTick ==
    [branch |-> "none", in_close_combat |-> FALSE,
     has_ground_contact |-> FALSE, need_jump |-> FALSE,
     was_damaged |-> FALSE, can_aim |-> FALSE,
     hit_had_ended |-> FALSE, is_walking |-> FALSE,
     path_query |-> FALSE,
     fired |-> [locomotion |-> 0, combat |-> 0, dying |-> 0],
     completed |-> [locomotion |-> 0, combat |-> 0, dying |-> 0],
     blend_total |-> [locomotion |-> 0, combat |-> 0, dying |-> 0]]

NoProbe == [inputs |-> None, previous |-> None, twin_previous |-> None,
            twin_target |-> None]

\* Nothing observed yet: no hit detected, the point of interest never
\* changed, no path asked of the navmesh.
NoObserved == [hit_time |-> None, poi_time |-> None, query_time |-> None]

Init ==
    /\ time = [elapsed |-> 0, delta |-> 0]
    /\ frames = 0
    /\ phase = "engine"
    /\ character = CharacterNew
    /\ bot \in {[BotNew EXCEPT !.frustum = f] : f \in Frustums}
    /\ locomotion_machine = MachineNew(LocomotionStates, LocomotionEntry)
    /\ combat_machine = MachineNew(CombatStates, CombatEntry)
    /\ dying_machine = MachineNew(DyingStates, DyingEntry)
    /\ animations = [whip_events |-> << >>, walk_events |-> << >>,
                     hit_reaction_time |-> 0]
    /\ physics = [position |-> Origin, ground_contact |-> FALSE]
    /\ sent = << >>
    /\ tick = NoTick
    /\ probe = NoProbe
    /\ observed = NoObserved

\* ------------------------------------------------------- engine update
\* A signal of a clip fires into the clip's queue (Animation::tick); the
\* queue keeps MaxPending events.
FireSignals(events, n, event) ==
    LET room == MaxPending - Len(events)
        k == IF n < room THEN n ELSE room
    IN  events \o [i \in 1..k |-> event]

\* The hit-reaction clip plays once at speed 2.0.
HitReactionAdvance(t, dt) == Min(HitReactionLength, t + 2 * dt)

HitReactionHasEnded(t) == t >= HitReactionLength

\* Game's main loop advances the time by one step and calls Game::update,
\* which starts with Engine::update(dt): the clips advance and fire their
\* signals, the physics moves the body.
EngineUpdate(dt, whip_fired, walk_fired, position, ground_contact) ==
    /\ phase = "engine"
    /\ frames < MaxFrames
    /\ frames' = frames + 1
    /\ time' = [elapsed |-> time.elapsed + dt, delta |-> dt]
    /\ animations' =
          [whip_events |->
               FireSignals(animations.whip_events, whip_fired,
                           [signal_id |-> HIT_SIGNAL, at_fire |-> "pending"]),
           walk_events |->
               FireSignals(animations.walk_events, walk_fired,
                           [signal_id |-> STEP_SIGNAL, at_fire |-> "pending"]),
           hit_reaction_time |->
               HitReactionAdvance(animations.hit_reaction_time, dt)]
    /\ physics' = [position |-> position, ground_contact |-> ground_contact]
    /\ phase' = "level"
    /\ UNCHANGED <<character, bot, locomotion_machine, combat_machine,
                   dying_machine, sent, tick, probe, observed>>

\* --------------------------------------------------------- Bot::update
\* An event still queued after a tick fired on a tick with this close
\* combat flag (book-keeping of the moment a signal fired).
Resolve(events, in_close_combat) ==
    [i \in 1..Len(events) |->
        IF events[i].at_fire = "pending"
        THEN [events[i] EXCEPT !.at_fire = IF in_close_combat THEN "yes"
                                           ELSE "no"]
        ELSE events[i]]

IsHit(e) == e.signal_id = HIT_SIGNAL

IsStep(e) == e.signal_id = STEP_SIGNAL

\* The melee loop: one DamageActor of 20 per hit event, in close combat.
MeleeMessages(events, target_, in_close_combat) ==
    LET hits == SelectSeq(Resolve(events, in_close_combat), IsHit)
    IN  IF in_close_combat
        THEN [i \in 1..Len(hits) |->
                 Msg("DamageActor", target_.handle, 20, hits[i].at_fire)]
        ELSE << >>

StepMessagesAirborne(events, position, has_ground_contact) ==
    LET steps == SelectSeq(events, IsStep)
    IN  [i \in 1..Len(steps) |-> Msg("PlaySound", position, 0, "step")]

\* The footstep loop: one PlaySound per step event, on the ground.
StepMessages(events, position, has_ground_contact) ==
    LET steps == SelectSeq(events, IsStep)
    IN  IF has_ground_contact
        THEN [i \in 1..Len(steps) |-> Msg("PlaySound", position, 0, "step")]
        ELSE << >>

\* The ShootWeapon request of the tick.
ShootMessages(c, in_close_combat, can_aim, can_shoot, target_) ==
    IF ~in_close_combat /\ can_aim /\ can_shoot /\ target_ # None
       /\ c.current_weapon < Len(c.weapons)
    THEN << Msg("ShootWeapon", c.weapons[c.current_weapon + 1], 0, "") >>
    ELSE << >>

RestorationOnDamageShort(was_damaged, restoration_time) ==
    IF was_damaged THEN 500 ELSE restoration_time

\* The aim-lock cooldown set on damage (restoration_time = 0.8).
RestorationOnDamage(was_damaged, restoration_time) ==
    IF was_damaged THEN 800 ELSE restoration_time

WasDamagedNotAbove(health_, last_health) == health_ <= last_health

WasDamagedByMuch(health_, last_health) == last_health - health_ > 50

\* was_damaged: the health fell since the last full update
WasDamaged(health_, last_health) == health_ < last_health

UpdateDyingTouchesBot ==
    /\ phase = "level"
    /\ IsDead(character.health)
    /\ LET r == DyingApply(dying_machine, time.delta,
                           IsDead(character.health))
       IN  /\ dying_machine' = r.machine
           /\ tick' = [NoTick EXCEPT !.branch = "dying",
                                     !.fired.dying = r.fired,
                                     !.completed.dying = r.completed,
                                     !.blend_total.dying = r.blend_total]
    /\ animations' = [animations EXCEPT
                        !.whip_events = Resolve(@, FALSE)]
    /\ bot' = [bot EXCEPT !.last_health = character.health,
                          !.target = None]
    /\ phase' = "messages"
    /\ UNCHANGED <<time, frames, character, locomotion_machine,
                   combat_machine, physics, sent, probe, observed>>

\* The dead branch of Bot::update: the dying machine alone.
UpdateDying ==
    /\ phase = "level"
    /\ IsDead(character.health)
    /\ LET r == DyingApply(dying_machine, time.delta,
                           IsDead(character.health))
       IN  /\ dying_machine' = r.machine
           /\ tick' = [NoTick EXCEPT !.branch = "dying",
                                     !.fired.dying = r.fired,
                                     !.completed.dying = r.completed,
                                     !.blend_total.dying = r.blend_total]
    /\ animations' = [animations EXCEPT
                        !.whip_events = Resolve(@, FALSE)]
    /\ phase' = "messages"
    /\ UNCHANGED <<time, frames, character, bot, locomotion_machine,
                   combat_machine, physics, sent, probe, observed>>

\* The live branch of Bot::update.  The inputs are what the level hands
\* in: the target descriptors, the ray casts of the physics, the frustum
\* the new position gives, the ammo of the weapons, the items and the
\* navmesh's answer.
UpdateFull(targets, ray_cast, new_frustum, ammo, items, nav) ==
    /\ phase = "level"
    /\ ~IsDead(character.health)
    /\ LET position == physics.position
           target1 == SelectTarget(bot.target, SelfHandle, SelfBody,
                                   position, bot.frustum, targets, ray_cast)
           sw == SelectWeapon(character, ammo)
           b1 == SelectPointOfInterest([bot EXCEPT !.target = target1],
                                       items, position, time.elapsed)
           has_ground_contact == physics.ground_contact
           look_dir == IF target1 = None
                       THEN Sub(b1.point_of_interest, position)
                       ELSE Sub(target1[1].position, position)
           in_close_combat == target1 # None /\ LenAtMost(look_dir, 20)
           b2 == [FollowPath(b1, position) EXCEPT !.frustum = new_frustum]
           need_jump == look_dir[2] >= 3 /\ has_ground_contact
                        /\ in_close_combat
           was_damaged == WasDamaged(character.health, bot.last_health)
           hit_had_ended == HitReactionHasEnded(animations.hit_reaction_time)
           restoration1 == RestorationOnDamage(was_damaged,
                                               bot.restoration_time)
           can_aim == restoration1 <= 0
           loco == LocomotionApply(locomotion_machine, time.delta,
                                   in_close_combat, need_jump,
                                   has_ground_contact)
           comb == CombatApply(combat_machine, time.delta, in_close_combat,
                               was_damaged, can_aim)
           is_walking == IsWalking(loco.machine)
           rebuild == PathRebuildDue(time.elapsed, b2.last_path_rebuild_time)
                      /\ nav.present
           b3 == IF rebuild THEN RebuildPath(b2, nav, time.elapsed) ELSE b2
           path_query == rebuild /\ BuildPathCalled(nav)
       IN  /\ character' = sw.character
           /\ bot' = [b3 EXCEPT
                        !.last_health = character.health,
                        !.restoration_time = restoration1 - time.delta]
           /\ locomotion_machine' = loco.machine
           /\ combat_machine' = comb.machine
           /\ animations' =
                 [whip_events |->
                      IF target1 # None THEN << >>
                      ELSE Resolve(animations.whip_events, in_close_combat),
                  walk_events |->
                      IF is_walking THEN << >> ELSE animations.walk_events,
                  hit_reaction_time |->
                      IF was_damaged /\ hit_had_ended THEN 0
                      ELSE animations.hit_reaction_time]
           /\ sent' = sent \o sw.sent
                      \o ShootMessages(sw.character, in_close_combat, can_aim,
                                       CanShoot(comb.machine), target1)
                      \o (IF target1 # None
                          THEN MeleeMessages(animations.whip_events, target1[1],
                                             in_close_combat)
                          ELSE << >>)
                      \o (IF is_walking
                          THEN StepMessages(animations.walk_events, position,
                                            has_ground_contact)
                          ELSE << >>)
           /\ tick' = [branch |-> "full",
                       in_close_combat |-> in_close_combat,
                       has_ground_contact |-> has_ground_contact,
                       need_jump |-> need_jump,
                       was_damaged |-> was_damaged,
                       can_aim |-> can_aim,
                       hit_had_ended |-> hit_had_ended,
                       is_walking |-> is_walking,
                       path_query |-> path_query,
                       fired |-> [locomotion |-> loco.fired,
                                  combat |-> comb.fired, dying |-> 0],
                       completed |-> [locomotion |-> loco.completed,
                                      combat |-> comb.completed, dying |-> 0],
                       blend_total |-> [locomotion |-> loco.blend_total,
                                        combat |-> comb.blend_total,
                                        dying |-> 0]]
           /\ observed' =
                 [hit_time |-> IF was_damaged THEN Some(time.elapsed)
                               ELSE observed.hit_time,
                  poi_time |-> IF b3.point_of_interest # bot.point_of_interest
                               THEN Some(time.elapsed)
                               ELSE observed.poi_time,
                  query_time |-> IF path_query THEN Some(time.elapsed)
                                 ELSE observed.query_time]
    /\ phase' = "messages"
    /\ UNCHANGED <<time, frames, dying_machine, physics, probe>>

\* ----------------------------------------------------- message handling
\* Game::handle_messages drains the channel after the level's update; the
\* level may pass on a hit on the bot (Character::damage) or a weapon
\* given to it (Character::add_weapon).
HandleMessages ==
    /\ phase = "messages"
    /\ sent' = << >>
    /\ tick' = NoTick
    /\ phase' = "engine"
    /\ UNCHANGED <<time, frames, character, bot, locomotion_machine,
                   combat_machine, dying_machine, animations, physics, probe,
                   observed>>

DamageActor(amount) ==
    /\ phase = "messages"
    /\ ~IsDead(character.health)
    /\ character' = Damage(character, amount)
    /\ sent' = << >>
    /\ tick' = NoTick
    /\ phase' = "engine"
    /\ UNCHANGED <<time, frames, bot, locomotion_machine, combat_machine,
                   dying_machine, animations, physics, probe, observed>>

GiveWeapon ==
    /\ phase = "messages"
    /\ Len(character.weapons) < MaxWeapons
    /\ character' = AddWeaponTo(character,
                                WeaponHandles[Len(character.weapons) + 1]).character
    /\ sent' = << >>
    /\ tick' = NoTick
    /\ phase' = "engine"
    /\ UNCHANGED <<time, frames, bot, locomotion_machine, combat_machine,
                   dying_machine, animations, physics, probe, observed>>

\* The bot's life: frames with damage and death, the clips' signals left
\* aside.
Next ==
    \/ \E dt \in Deltas, ground_contact \in BOOLEAN :
          EngineUpdate(dt, 0, 0, Origin, ground_contact)
    \/ UpdateDying
    \/ \E scene \in Scenes, ammo \in Ammos :
          UpdateFull(scene.targets, scene.ray_cast, Positions, ammo,
                     << >>, NoNavmesh)
    \/ HandleMessages
    \/ \E amount \in DamageAmounts : DamageActor(amount)
    \/ GiveWeapon

Spec == Init /\ [][Next]_vars

\* The main loop keeps running for a bot that died late: the frames its
\* dying takes, past the frames of its life.
DeadEngineUpdate(dt, ground_contact) ==
    /\ phase = "engine"
    /\ frames >= MaxFrames
    /\ frames < MaxFrames + MaxDyingFrames
    /\ IsDead(character.health)
    /\ frames' = frames + 1
    /\ time' = [elapsed |-> time.elapsed + dt, delta |-> dt]
    /\ animations' = [animations EXCEPT !.hit_reaction_time =
                        HitReactionAdvance(animations.hit_reaction_time, dt)]
    /\ physics' = [position |-> Origin, ground_contact |-> ground_contact]
    /\ phase' = "level"
    /\ UNCHANGED <<character, bot, locomotion_machine, combat_machine,
                   dying_machine, sent, tick, probe, observed>>

\* A bot that is hit, dies and is updated until it can be removed.
NextDeath ==
    \/ \E dt \in Deltas : EngineUpdate(dt, 0, 0, Origin, TRUE)
    \/ \E dt \in Deltas : DeadEngineUpdate(dt, TRUE)
    \/ UpdateDying
    \/ \E targets \in {<< Self >>, << Self, Descriptor("a", PFar) >>} :
          UpdateFull(targets, ClearRays, Positions,
                     CHOOSE ammo \in Ammos : \A w \in DOMAIN ammo : ammo[w] > 0,
                     << >>, NoNavmesh)
    \/ HandleMessages
    \/ \E amount \in DamageAmounts : DamageActor(amount)

\* The main loop never stops calling Game::update.
SpecDeath == Init /\ [][NextDeath]_vars /\ WF_vars(NextDeath)

\* ------------------------------------------------------- save and load
\* Visit for Bot, writing: the regions of the save, Character's among them.
SaveBot(c, b, locomotion, combat) ==
    [Kind |-> BotKindId(b.kind),
     Character |-> [Health |-> c.health, Armor |-> c.armor,
                    Weapons |-> c.weapons, CurrentWeapon |-> c.current_weapon],
     Model |-> b.model,
     Target |-> b.target,
     LocomotionMachine |-> locomotion,
     AimMachine |-> combat,
     RestorationTime |-> b.restoration_time]

\* Visit for Bot, reading into Bot::default: what no region carries keeps
\* its default.
LoadBot(saved) ==
    LET k == BotKindFromId(saved.Kind)
    IN  [ok |-> k.ok,
         character |-> [health |-> saved.Character.Health,
                        armor |-> saved.Character.Armor,
                        weapons |-> saved.Character.Weapons,
                        current_weapon |-> saved.Character.CurrentWeapon],
         bot |-> [BotDefault EXCEPT
                    !.kind = k.kind,
                    !.model = saved.Model,
                    !.target = saved.Target,
                    !.restoration_time = saved.RestorationTime],
         locomotion_machine |-> saved.LocomotionMachine,
         combat_machine |-> saved.AimMachine,
         dying_machine |-> MachineDefault]

\* The game is saved between two frames and loaded back.
SaveLoad ==
    /\ phase = "engine"
    /\ LET loaded == LoadBot(SaveBot(character, bot, locomotion_machine,
                                     combat_machine))
       IN  /\ loaded.ok
           /\ character' = loaded.character
           /\ bot' = loaded.bot
           /\ locomotion_machine' = loaded.locomotion_machine
           /\ combat_machine' = loaded.combat_machine
           /\ dying_machine' = loaded.dying_machine
    /\ phase' = "loaded"
    /\ UNCHANGED <<time, frames, animations, physics, sent, tick, probe,
                   observed>>

NextSave ==
    \/ NextDeath
    \/ SaveLoad

SpecSave == Init /\ [][NextSave]_vars

\* The clips' signals: frames of a bot that takes no damage.
NextEvents ==
    \/ \E dt \in Deltas, whip_fired \in 0..1, walk_fired \in 0..2,
          ground_contact \in BOOLEAN :
          EngineUpdate(dt, whip_fired, walk_fired, Origin, ground_contact)
    \/ \E scene \in Scenes, new_frustum \in Frustums :
          UpdateFull(scene.targets, scene.ray_cast, new_frustum,
                     CHOOSE ammo \in Ammos : \A w \in DOMAIN ammo : ammo[w] > 0,
                     << >>, NoNavmesh)
    \/ HandleMessages

SpecEvents == Init /\ [][NextEvents]_vars

\* ------------------------------------------------ select_target alone
\* Descriptor lists of up to MaxTargets actors, each actor once.
Descriptors ==
    {Self} \cup {Descriptor("a", p) : p \in {Origin, PNear}}
           \cup {Descriptor("b", p) : p \in {PNear, PNearHigh, PFar}}

TargetLists ==
    {s \in UNION {[1..n -> Descriptors] : n \in 0..MaxTargets} :
        \A i, j \in DOMAIN s : i # j => s[i].handle # s[j].handle}

HitLists == { << >>, << StaticHit >>, << BodyHit("other_body") >>,
              << BodyHit(SelfBody), StaticHit >> }

RayCasts == {r \in [Positions -> HitLists] : r[Origin] = << >>}

SelectFrustums == {Positions, {}, {Origin, PNear, PNearHigh}, {PFar}}

\* The previous target of the bot and of a twin that differs in nothing else.
PreviousTargets ==
    { <<None, Some([position |-> PNear, handle |-> "a"])>>,
      <<Some([position |-> PNear, handle |-> "a"]), None>>,
      <<Some([position |-> PFar, handle |-> "b"]),
        Some([position |-> PNear, handle |-> "a"])>> }

InitSelect ==
    /\ time = [elapsed |-> 0, delta |-> 0]
    /\ frames = 0
    /\ phase = "select"
    /\ character = CharacterNew
    /\ \E previous \in PreviousTargets, frustum_ \in SelectFrustums,
          targets \in TargetLists, ray_cast \in RayCasts :
          /\ bot = [BotNew EXCEPT !.target = previous[1],
                                  !.frustum = frustum_]
          /\ probe = [inputs |-> Some([targets |-> targets,
                                       ray_cast |-> ray_cast]),
                      previous |-> previous[1],
                      twin_previous |-> previous[2],
                      twin_target |-> previous[2]]
    /\ locomotion_machine = MachineNew(LocomotionStates, LocomotionEntry)
    /\ combat_machine = MachineNew(CombatStates, CombatEntry)
    /\ dying_machine = MachineNew(DyingStates, DyingEntry)
    /\ animations = [whip_events |-> << >>, walk_events |-> << >>,
                     hit_reaction_time |-> 0]
    /\ physics = [position |-> Origin, ground_contact |-> FALSE]
    /\ sent = << >>
    /\ tick = NoTick
    /\ observed = NoObserved

\* Bot::select_target run by the bot and by its twin on the same inputs.
SelectTargetStep ==
    /\ phase = "select"
    /\ LET in == probe.inputs[1]
       IN  /\ bot' = [bot EXCEPT !.target =
                        SelectTarget(bot.target, SelfHandle, SelfBody,
                                     physics.position, bot.frustum,
                                     in.targets, in.ray_cast)]
           /\ probe' = [probe EXCEPT !.twin_target =
                        SelectTarget(probe.twin_previous, SelfHandle, SelfBody,
                                     physics.position, bot.frustum,
                                     in.targets, in.ray_cast)]
    /\ phase' = "selected"
    /\ UNCHANGED <<time, frames, character, locomotion_machine,
                   combat_machine, dying_machine, animations, physics, sent,
                   tick, observed>>

NextSelect == SelectTargetStep

SpecSelect == InitSelect /\ [][NextSelect]_vars

\* ------------------------------------------------- planning: items, paths
Item(position, picked_up) == [position |-> position, picked_up |-> picked_up]

\* What the level's item container holds on a tick.
ItemLists ==
    { << >>,
      << Item(PFar, FALSE) >>,
      << Item(PFar, FALSE), Item(PNear, FALSE) >>,
      << Item(PNear, TRUE), Item(PFar, FALSE) >> }

\* The navmesh's answers to rebuild_path: destination-to-origin order.
NavAnswer(from_index, to_index, build_ok, keeps_buffer, path) ==
    [present |-> TRUE, from_index |-> from_index, to_index |-> to_index,
     build_ok |-> build_ok, keeps_buffer |-> keeps_buffer, path |-> path]

Navs ==
    { NoNavmesh,
      NavAnswer(TRUE, TRUE, TRUE, FALSE, << PFar, PNear, Origin >>),
      NavAnswer(TRUE, TRUE, TRUE, FALSE, << PNear >>),
      NavAnswer(TRUE, TRUE, TRUE, FALSE, << >>),
      NavAnswer(FALSE, TRUE, FALSE, TRUE, << >>),
      NavAnswer(TRUE, TRUE, FALSE, FALSE, << >>),
      NavAnswer(TRUE, TRUE, FALSE, TRUE, << >>) }

PlanPositions == {Origin, PNear, PFar}

\* Bot::set_point_of_interest, called by the level between two updates.
SetPointOfInterest(poi) ==
    /\ phase = "messages"
    /\ bot' = [bot EXCEPT !.point_of_interest = poi,
                          !.last_poi_update_time = time.elapsed]
    /\ observed' = [observed EXCEPT !.poi_time = Some(time.elapsed)]
    /\ sent' = << >>
    /\ tick' = NoTick
    /\ phase' = "engine"
    /\ UNCHANGED <<time, frames, character, locomotion_machine,
                   combat_machine, dying_machine, animations, physics, probe>>

\* A bot that finds its way: no opponents, items and a navmesh.
NextPlan ==
    \/ \E dt \in Deltas, position \in PlanPositions :
          EngineUpdate(dt, 0, 0, position, TRUE)
    \/ \E items \in ItemLists, nav \in Navs :
          UpdateFull(<< Self >>, ClearRays, Positions,
                     CHOOSE ammo \in Ammos : \A w \in DOMAIN ammo : ammo[w] > 0,
                     items, nav)
    \/ HandleMessages
    \/ SetPointOfInterest(PNearHigh)

SpecPlan == Init /\ [][NextPlan]_vars

\* --------------------------------------------- Character::damage alone
\* Health, armor and amount of one call; armor below zero is what an
\* earlier hit through the armor leaves.
DamageHealths == {1, 30, 100, 150}

DamageArmors == {-50, 0, 20, 30, 100}

DamageInputs == {-150, -30, 0, 20, 30, 150}

InitDamage ==
    /\ time = [elapsed |-> 0, delta |-> 0]
    /\ frames = 0
    /\ phase = "damage"
    /\ \E h \in DamageHealths, a \in DamageArmors, amount \in DamageInputs :
          /\ character = [CharacterNew EXCEPT !.health = h, !.armor = a]
          /\ probe = [NoProbe EXCEPT
                        !.inputs = Some([amount |-> amount,
                                         health |-> h, armor |-> a])]
    /\ bot = BotNew
    /\ locomotion_machine = MachineNew(LocomotionStates, LocomotionEntry)
    /\ combat_machine = MachineNew(CombatStates, CombatEntry)
    /\ dying_machine = MachineNew(DyingStates, DyingEntry)
    /\ animations = [whip_events |-> << >>, walk_events |-> << >>,
                     hit_reaction_time |-> 0]
    /\ physics = [position |-> Origin, ground_contact |-> FALSE]
    /\ sent = << >>
    /\ tick = NoTick
    /\ observed = NoObserved

\* One call of Character::damage.
DamageStep ==
    /\ phase = "damage"
    /\ character' = Damage(character, probe.inputs[1].amount)
    /\ phase' = "damaged"
    /\ UNCHANGED <<time, frames, bot, locomotion_machine, combat_machine,
                   dying_machine, animations, physics, sent, tick, probe,
                   observed>>

NextDamage == DamageStep

SpecDamage == InitDamage /\ [][NextDamage]_vars

\* ------------------------------------------------ on_actor_removed alone
OnActorRemovedAny(target_, handle) == None

\* Bot::on_actor_removed: the target after the call.
OnActorRemoved(target_, handle) ==
    IF target_ # None /\ target_[1].handle = handle THEN None ELSE target_

ActorHandles == {"a", "b", "c", "d"}

\* The target before the call and the actor removed.
RemovedTargets ==
    {None} \cup {Some([position |-> p, handle |-> h]) :
                    p \in Positions, h \in ActorHandles}

InitRemove ==
    /\ time = [elapsed |-> 0, delta |-> 0]
    /\ frames = 0
    /\ phase = "remove"
    /\ character = CharacterNew
    /\ \E target_ \in RemovedTargets, h \in ActorHandles \cup {SelfHandle} :
          /\ bot = [BotNew EXCEPT !.target = target_]
          /\ probe = [NoProbe EXCEPT !.inputs = Some([handle |-> h]),
                                     !.previous = target_]
    /\ locomotion_machine = MachineNew(LocomotionStates, LocomotionEntry)
    /\ combat_machine = MachineNew(CombatStates, CombatEntry)
    /\ dying_machine = MachineNew(DyingStates, DyingEntry)
    /\ animations = [whip_events |-> << >>, walk_events |-> << >>,
                     hit_reaction_time |-> 0]
    /\ physics = [position |-> Origin, ground_contact |-> FALSE]
    /\ sent = << >>
    /\ tick = NoTick
    /\ observed = NoObserved

RemoveStep ==
    /\ phase = "remove"
    /\ bot' = [bot EXCEPT !.target =
                  OnActorRemoved(bot.target, probe.inputs[1].handle)]
    /\ phase' = "removed"
    /\ UNCHANGED <<time, frames, character, locomotion_machine,
                   combat_machine, dying_machine, animations, physics, sent,
                   tick, probe, observed>>

NextRemove == RemoveStep

SpecRemove == InitRemove /\ [][NextRemove]_vars

\* ------------------------------------------------------ kind ids alone
\* The ids a save may hold: i32 for a bot, u32 for a weapon and a
\* projectile.
BotKindIds == -2..4

WeaponKindIds == 0..5

ProjectileKindIds == 0..4

InitKinds ==
    /\ time = [elapsed |-> 0, delta |-> 0]
    /\ frames = 0
    /\ phase = "kinds"
    /\ character = CharacterNew
    /\ bot = BotNew
    /\ \E b \in BotKindIds, w \in WeaponKindIds, p \in ProjectileKindIds :
          probe = [inputs |-> Some([bot_id |-> b, weapon_id |-> w,
                                    projectile_id |-> p]),
                   outputs |-> None]
    /\ locomotion_machine = MachineNew(LocomotionStates, LocomotionEntry)
    /\ combat_machine = MachineNew(CombatStates, CombatEntry)
    /\ dying_machine = MachineNew(DyingStates, DyingEntry)
    /\ animations = [whip_events |-> << >>, walk_events |-> << >>,
                     hit_reaction_time |-> 0]
    /\ physics = [position |-> Origin, ground_contact |-> FALSE]
    /\ sent = << >>
    /\ tick = NoTick
    /\ observed = NoObserved

\* The three Visit implementations read a kind id and convert it.
LoadKinds ==
    /\ phase = "kinds"
    /\ LET in == probe.inputs[1]
       IN  probe' = [probe EXCEPT !.outputs =
                        Some([bot |-> BotKindFromId(in.bot_id),
                              weapon |-> WeaponKindNew(in.weapon_id),
                              projectile |->
                                  ProjectileKindNew(in.projectile_id)])]
    /\ phase' = "kinds_loaded"
    /\ UNCHANGED <<time, frames, character, bot, locomotion_machine,
                   combat_machine, dying_machine, animations, physics, sent,
                   tick, observed>>

NextKinds == LoadKinds

SpecKinds == InitKinds /\ [][NextKinds]_vars

\* ------------------------------------------- construction and clean-up
\* The clips of a bot definition, in the order Bot::new loads them.
LocomotionClips == << "idle", "walk", "jump", "falling" >>

CombatClips == << "aim", "whip", "hit_reaction" >>

DyingClips == << "dying", "dead" >>

Resources ==
    {"model"} \cup {LocomotionClips[i] : i \in DOMAIN LocomotionClips}
              \cup {CombatClips[i] : i \in DOMAIN CombatClips}
              \cup {DyingClips[i] : i \in DOMAIN DyingClips}

\* The scene before the bot: the level's own node, no clip, no body.
SceneNew == [nodes |-> {"level"}, animations |-> {}, bodies |-> {}]

LoadAnimationOrDefault(available, clip) == TRUE

\* load_animation: Ok when the resource manager has the clip.
LoadAnimation(available, clip) == clip \in available

\* A machine's constructor: the clips load in order, the first that fails
\* ends it with Err; the clips loaded before stay in the scene.
RECURSIVE LoadClips(_, _, _, _)
LoadClips(clips, i, available, scene) ==
    IF i > Len(clips) THEN [ok |-> TRUE, scene |-> scene]
    ELSE IF LoadAnimation(available, clips[i])
         THEN LoadClips(clips, i + 1, available,
                        [scene EXCEPT !.animations = @ \cup {clips[i]}])
         ELSE [ok |-> FALSE, scene |-> scene]

\* The clips the PlayAnimation nodes of a machine refer to.
MachineNodes(clips) == {clips[i] : i \in DOMAIN clips}

\* Bot::new: Err, or the bot's handles into the scene.
BotNewIn(available, scene) ==
    IF "model" \notin available
    THEN [ok |-> FALSE, scene |-> scene, bot |-> None]
    ELSE LET s1 == [scene EXCEPT
                      !.nodes = @ \cup {"model", "pivot", "weapon_pivot"},
                      !.bodies = @ \cup {SelfBody}]
             l == LoadClips(LocomotionClips, 1, available, s1)
             c == LoadClips(CombatClips, 1, available, l.scene)
             d == LoadClips(DyingClips, 1, available, c.scene)
         IN  IF ~l.ok THEN [ok |-> FALSE, scene |-> l.scene, bot |-> None]
             ELSE IF ~c.ok
                  THEN [ok |-> FALSE, scene |-> c.scene, bot |-> None]
             ELSE IF ~d.ok
                  THEN [ok |-> FALSE, scene |-> d.scene, bot |-> None]
             ELSE [ok |-> TRUE, scene |-> d.scene,
                   bot |-> Some([pivot |-> "pivot", body |-> SelfBody,
                                 model |-> "model",
                                 locomotion |-> MachineNodes(LocomotionClips),
                                 combat |-> MachineNodes(CombatClips),
                                 dying |-> MachineNodes(DyingClips)])]

\* The nodes under a node: the model hangs under the pivot, the weapon
\* pivot under the model's hand.
Subtree(node) ==
    IF node = "pivot" THEN {"pivot", "model", "weapon_pivot"}
    ELSE IF node = "model" THEN {"model", "weapon_pivot"}
    ELSE {node}

\* clean_machine: the clip of every PlayAnimation node leaves the scene.
CleanMachine(nodes, scene) == [scene EXCEPT !.animations = @ \ nodes]

\* Character::clean_up: the pivot with what is under it, and the body.
CharacterCleanUp(b, scene) ==
    [scene EXCEPT !.nodes = @ \ Subtree(b.pivot), !.bodies = @ \ {b.body}]

BotCleanUpTwoMachines(b, scene) ==
    CharacterCleanUp(b,
        CleanMachine(b.locomotion, CleanMachine(b.combat, scene)))

\* Bot::clean_up
BotCleanUp(b, scene) ==
    CharacterCleanUp(b,
        CleanMachine(b.locomotion,
            CleanMachine(b.dying, CleanMachine(b.combat, scene))))

InitLifecycle ==
    /\ time = [elapsed |-> 0, delta |-> 0]
    /\ frames = 0
    /\ phase = "construct"
    /\ character = CharacterNew
    /\ bot = BotNew
    /\ \E available \in SUBSET Resources :
          probe = [inputs |-> Some(available), outputs |-> None,
                   scene |-> SceneNew]
    /\ locomotion_machine = MachineNew(LocomotionStates, LocomotionEntry)
    /\ combat_machine = MachineNew(CombatStates, CombatEntry)
    /\ dying_machine = MachineNew(DyingStates, DyingEntry)
    /\ animations = [whip_events |-> << >>, walk_events |-> << >>,
                     hit_reaction_time |-> 0]
    /\ physics = [position |-> Origin, ground_contact |-> FALSE]
    /\ sent = << >>
    /\ tick = NoTick
    /\ observed = NoObserved

\* The level calls Bot::new.
Construct ==
    /\ phase = "construct"
    /\ LET r == BotNewIn(probe.inputs[1], probe.scene)
       IN  /\ probe' = [probe EXCEPT !.outputs = r.bot, !.scene = r.scene]
           /\ phase' = IF r.ok THEN "constructed" ELSE "failed"
    /\ UNCHANGED <<time, frames, character, bot, locomotion_machine,
                   combat_machine, dying_machine, animations, physics, sent,
                   tick, observed>>

\* The level removes the bot and calls Bot::clean_up.
CleanUp ==
    /\ phase = "constructed"
    /\ probe' = [probe EXCEPT
                    !.scene = BotCleanUp(probe.outputs[1], probe.scene)]
    /\ phase' = "cleaned"
    /\ UNCHANGED <<time, frames, character, bot, locomotion_machine,
                   combat_machine, dying_machine, animations, physics, sent,
                   tick, observed>>

NextLifecycle ==
    \/ Construct
    \/ CleanUp

SpecLifecycle == InitLifecycle /\ [][NextLifecycle]_vars

\* --------------------------- rebuild_path, the two selections, alone
\* The bot's path, cursor and answers of the navmesh for one rebuild.
RebuildBots ==
    { [BotNew EXCEPT !.path = pc[1], !.current_path_point = pc[2],
                     !.last_path_rebuild_time = t] :
        pc \in { << << >>, 0 >>, << << PNear, PFar >>, 0 >>,
                 << << PNear, PFar >>, 1 >> },
        t \in {-10000, 500} }

RebuildNavs ==
    (Navs \ {NoNavmesh})
        \cup { NavAnswer(TRUE, FALSE, FALSE, TRUE, << >>),
               NavAnswer(FALSE, FALSE, FALSE, TRUE, << >>) }

\* Items of the level, some picked up, and a bot whose reselection is or
\* is not due.
PoiItemLists ==
    ItemLists
        \cup { << Item(PNear, TRUE) >>,
               << Item(PNear, TRUE), Item(PNearHigh, TRUE) >>,
               << Item(PFar, FALSE), Item(PNear, TRUE), Item(PNearHigh, FALSE) >>,
               << Item(PNearHigh, FALSE), Item(PNear, FALSE) >>,
               << Item(PNear, FALSE), Item(PNear, FALSE), Item(Origin, TRUE) >> }

PoiBots ==
    { [BotNew EXCEPT !.point_of_interest = poi, !.last_poi_update_time = t] :
        poi \in {Origin, PNearHigh}, t \in {-10000, 750, 1000} }

\* The weapons a bot holds, the index of the current one and the ammo.
WeaponCharacters ==
    { [CharacterNew EXCEPT !.weapons = SubSeq(WeaponHandles, 1, n),
                           !.current_weapon = i] :
        n \in 0..Len(WeaponHandles), i \in 0..Len(WeaponHandles) }

WeaponAmmos == [{WeaponHandles[i] : i \in DOMAIN WeaponHandles} -> {0, 7}]

InitAlone ==
    /\ time = [elapsed |-> 2000, delta |-> TimeStep]
    /\ frames = 0
    /\ locomotion_machine = MachineNew(LocomotionStates, LocomotionEntry)
    /\ combat_machine = MachineNew(CombatStates, CombatEntry)
    /\ dying_machine = MachineNew(DyingStates, DyingEntry)
    /\ animations = [whip_events |-> << >>, walk_events |-> << >>,
                     hit_reaction_time |-> 0]
    /\ sent = << >>
    /\ tick = NoTick
    /\ observed = NoObserved
    /\ \/ /\ phase = "rebuild"
          /\ character = CharacterNew
          /\ physics = [position |-> Origin, ground_contact |-> FALSE]
          /\ \E b \in RebuildBots, nav \in RebuildNavs :
                /\ bot = b
                /\ probe = [inputs |-> Some([nav |-> nav]), before |-> b]
       \/ /\ phase = "select_poi"
          /\ character = CharacterNew
          /\ \E b \in PoiBots, items \in PoiItemLists,
                position \in PlanPositions :
                /\ bot = b
                /\ physics = [position |-> position, ground_contact |-> FALSE]
                /\ probe = [inputs |-> Some([items |-> items]), before |-> b]
       \/ /\ phase = "select_weapon"
          /\ bot = BotNew
          /\ physics = [position |-> Origin, ground_contact |-> FALSE]
          /\ \E c \in WeaponCharacters, ammo \in WeaponAmmos :
                /\ character = c
                /\ probe = [inputs |-> Some([ammo |-> ammo]), before |-> c]

\* One call of Bot::rebuild_path.
RebuildPathStep ==
    /\ phase = "rebuild"
    /\ bot' = RebuildPath(bot, probe.inputs[1].nav, time.elapsed)
    /\ phase' = "rebuilt"
    /\ UNCHANGED <<time, frames, character, locomotion_machine,
                   combat_machine, dying_machine, animations, physics, sent,
                   tick, probe, observed>>

\* One call of Bot::select_point_of_interest.
SelectPoiStep ==
    /\ phase = "select_poi"
    /\ bot' = SelectPointOfInterest(bot, probe.inputs[1].items,
                                    physics.position, time.elapsed)
    /\ phase' = "poi_selected"
    /\ UNCHANGED <<time, frames, character, locomotion_machine,
                   combat_machine, dying_machine, animations, physics, sent,
                   tick, probe, observed>>

\* One call of Bot::select_weapon.
SelectWeaponStep ==
    /\ phase = "select_weapon"
    /\ LET r == SelectWeapon(character, probe.inputs[1].ammo)
       IN  /\ character' = r.character
           /\ sent' = r.sent
    /\ phase' = "weapon_selected"
    /\ UNCHANGED <<time, frames, bot, locomotion_machine, combat_machine,
                   dying_machine, animations, physics, tick, probe, observed>>

NextAlone ==
    \/ RebuildPathStep
    \/ SelectPoiStep
    \/ SelectWeaponStep

SpecAlone == InitAlone /\ [][NextAlone]_vars

\* ------------------------------------------------ Weapon::try_shoot alone
\* The variables a specification of one function leaves alone hold a
\* freshly built bot.
BotAtRest ==
    /\ frames = 0
    /\ bot = BotNew
    /\ locomotion_machine = MachineNew(LocomotionStates, LocomotionEntry)
    /\ combat_machine = MachineNew(CombatStates, CombatEntry)
    /\ dying_machine = MachineNew(DyingStates, DyingEntry)
    /\ animations = [whip_events |-> << >>, walk_events |-> << >>,
                     hit_reaction_time |-> 0]
    /\ physics = [position |-> Origin, ground_contact |-> FALSE]
    /\ tick = NoTick
    /\ observed = NoObserved

\* WeaponDefinition.shoot_interval of Weapon::get_definition, in ms.
ShootInterval(kind) ==
    CASE kind = "M4" -> 150
      [] kind = "Ak47" -> 150
      [] kind = "PlasmaRifle" -> 250
      [] kind = "RocketLauncher" -> 1500

\* Weapon::new with the ammo of the case: last_shot_time 0, a sender.
WeaponNew(kind, ammo) ==
    [kind |-> kind, ammo |-> ammo, last_shot_time |-> 0,
     offset |-> Origin, has_sender |-> TRUE]

\* The recoil offset of a shot, Vec3::new(0.0, 0.0, -0.05), in mm (the weapon model's own offset).
ShotOffset == <<0, 0, -50>>

TryShootNoCadence(w, elapsed) ==
    IF w.ammo # 0
    THEN [weapon |-> [w EXCEPT !.ammo = w.ammo - 1, !.offset = ShotOffset,
                               !.last_shot_time = elapsed],
          sent |-> IF w.has_sender
                   THEN << Msg("PlaySound", w.kind, 0, "shot") >>
                   ELSE << >>,
          result |-> TRUE]
    ELSE [weapon |-> w, sent |-> << >>, result |-> FALSE]

\* Weapon::try_shoot: [weapon, sent, result]
TryShoot(w, elapsed) ==
    IF w.ammo # 0 /\ elapsed - w.last_shot_time >= ShootInterval(w.kind)
    THEN [weapon |-> [w EXCEPT !.ammo = w.ammo - 1, !.offset = ShotOffset,
                               !.last_shot_time = elapsed],
          sent |-> IF w.has_sender
                   THEN << Msg("PlaySound", w.kind, 0, "shot") >>
                   ELSE << >>,
          result |-> TRUE]
    ELSE [weapon |-> w, sent |-> << >>, result |-> FALSE]

ShotKinds == {"M4", "PlasmaRifle"}
ShotAmmos == 0..MaxAmmo
ShotDeltas == {50, 100}

InitShoot ==
    /\ BotAtRest
    /\ character = CharacterNew
    /\ time = [elapsed |-> 0, delta |-> 0]
    /\ phase = "frame"
    /\ sent = << >>
    /\ \E kind \in ShotKinds, ammo \in ShotAmmos :
          probe = [weapon |-> WeaponNew(kind, ammo),
                   before |-> WeaponNew(kind, ammo),
                   result |-> None]

\* One call of Weapon::try_shoot at the frame's game time.
TryShootStep ==
    /\ phase = "frame"
    /\ LET r == TryShoot(probe.weapon, time.elapsed)
       IN  /\ probe' = [weapon |-> r.weapon, before |-> probe.weapon,
                        result |-> Some(r.result)]
           /\ sent' = r.sent
    /\ phase' = "shot"
    /\ UNCHANGED <<time, frames, character, bot, locomotion_machine,
                   combat_machine, dying_machine, animations, physics, tick,
                   observed>>

\* The next frame: the game time advances and Game::handle_messages has
\* drained the channel.
ShootFrame ==
    /\ \E dt \in ShotDeltas :
          /\ time.elapsed + dt <= MaxElapsed
          /\ time' = [elapsed |-> time.elapsed + dt, delta |-> dt]
    /\ sent' = << >>
    /\ phase' = "frame"
    /\ probe' = [probe EXCEPT !.result = None, !.before = probe.weapon]
    /\ UNCHANGED <<frames, character, bot, locomotion_machine,
                   combat_machine, dying_machine, animations, physics, tick,
                   observed>>

NextShoot ==
    \/ TryShootStep
    \/ ShootFrame

SpecShoot == InitShoot /\ [][NextShoot]_vars

\* -------------------------------------------------- spine and aim, alone
\* BotDefinition.v_aim_angle_hack, degrees.
VAimAngleHack(kind) ==
    CASE kind = "Mutant" -> -2
      [] kind = "Parasite" -> 12
      [] kind = "Maw" -> 16

\* SmoothAngle of Bot::default: 260 degrees a second.
SmoothAngleNew == [angle |-> 0, target |-> 0, speed |-> 260]

\* rg3d's wrap_angle, degrees.
WrapAngle(angle) == angle % 360

\* SmoothAngle::distance: the signed shortest turn to the target.
AngleDistance(a) ==
    LET diff == ((a.target - a.angle + 180) % 360) - 180
    IN  IF diff < -180 THEN diff + 360 ELSE diff

\* SmoothAngle::set_target(target).update(dt), dt in ms.
SmoothAngleUpdate(a, target, dt) ==
    LET w == [a EXCEPT !.target = WrapAngle(target),
                       !.angle = WrapAngle(a.angle)]
        delta == (w.speed * dt) \div 1000
        d == AngleDistance(w)
    IN  IF d = 0 THEN w
        ELSE IF Abs(d) > delta
             THEN [w EXCEPT !.angle = @ + (IF d < 0 THEN -delta ELSE delta)]
             ELSE [w EXCEPT !.angle = w.target]

\* Graph::find_by_name(model, definition.spine) over the model's bones.
FindSpine(bones) == IF "spine" \in bones THEN "spine" ELSE NONE

\* Bot::new and the bones of the model: the spine is looked up, its absence
\* is only reported, and the rest of the construction is BotNewIn.
BotNewWithBones(available, scene, bones) ==
    LET r == BotNewIn(available, scene)
    IN  [ok |-> r.ok,
         warned |-> ("model" \in available /\ FindSpine(bones) = NONE),
         spine |-> IF r.ok THEN FindSpine(bones) ELSE NONE,
         pivot |-> "pivot",
         pitch |-> SmoothAngleNew,
         yaw |-> SmoothAngleNew]

AimVerticallyNeedsSpine(b, rotation, polar, dt) ==
    IF b.spine # NONE
    THEN [pitch |-> SmoothAngleUpdate(b.pitch,
                        polar - 90 + VAimAngleHack(bot.kind), dt),
          rotation |-> [rotation EXCEPT ![b.spine] = Some(b.pitch.angle)],
          writes |-> {b.spine}]
    ELSE [pitch |-> b.pitch, rotation |-> rotation, writes |-> {}]

\* Bot::aim_vertically: polar is acos(look_dir . UP), degrees.
\* [pitch, rotation, writes]
AimVertically(b, rotation, polar, dt) ==
    LET angle == b.pitch.angle
        pitch == SmoothAngleUpdate(b.pitch,
                    polar - 90 + VAimAngleHack(bot.kind), dt)
    IN  IF b.spine # NONE
        THEN [pitch |-> pitch,
              rotation |-> [rotation EXCEPT ![b.spine] = Some(angle)],
              writes |-> {b.spine}]
        ELSE [pitch |-> pitch, rotation |-> rotation, writes |-> {}]

\* Bot::aim_horizontally: azimuth is atan2(look_dir.x, look_dir.z).
\* [yaw, rotation, writes]
AimHorizontally(b, rotation, azimuth, dt) ==
    [yaw |-> SmoothAngleUpdate(b.yaw, azimuth, dt),
     rotation |-> [rotation EXCEPT ![b.pivot] = Some(b.yaw.angle)],
     writes |-> {b.pivot}]

\* The nodes of the scene that carry a rotation set by the game.
AimNodes == {"pivot", "model", "spine", "weapon_pivot"}
ModelBones == {{"spine", "hand"}, {"hand"}}
AimAvailable == {Resources, Resources \ {"dead"}}
LookPolars == {45, 90, 150}
LookAzimuths == {-90, 0, 120}

InitAim ==
    /\ BotAtRest
    /\ character = CharacterNew
    /\ time = [elapsed |-> 0, delta |-> TimeStep]
    /\ phase = "construct"
    /\ sent = << >>
    /\ \E bones \in ModelBones, available \in AimAvailable :
          probe = [inputs |-> [bones |-> bones, available |-> available],
                   outputs |-> None,
                   rotation |-> [n \in AimNodes |-> None],
                   writes |-> {},
                   look |-> None,
                   before |-> None,
                   ticks |-> 0]

\* Bot::new for a model with or without the spine bone.
ConstructAim ==
    /\ phase = "construct"
    /\ LET r == BotNewWithBones(probe.inputs.available, SceneNew,
                                probe.inputs.bones)
       IN  /\ probe' = [probe EXCEPT !.outputs = Some(r)]
           /\ phase' = IF r.ok THEN "aim" ELSE "failed"
    /\ UNCHANGED <<time, frames, character, bot, locomotion_machine,
                   combat_machine, dying_machine, animations, physics, sent,
                   tick, observed>>

\* The call of aim_vertically in a tick that has a look direction.
AimVerticallyStep ==
    /\ phase = "aim"
    /\ probe.ticks < MaxAimTicks
    /\ \E polar \in LookPolars, azimuth \in LookAzimuths :
          LET b == probe.outputs[1]
              r == AimVertically(b, probe.rotation, polar, time.delta)
          IN  probe' = [probe EXCEPT
                          !.outputs = Some([b EXCEPT !.pitch = r.pitch]),
                          !.rotation = r.rotation,
                          !.writes = r.writes,
                          !.look = Some([polar |-> polar,
                                         azimuth |-> azimuth]),
                          !.before = Some(b),
                          !.ticks = @ + 1]
    /\ phase' = "aimed_vertically"
    /\ UNCHANGED <<time, frames, character, bot, locomotion_machine,
                   combat_machine, dying_machine, animations, physics, sent,
                   tick, observed>>

\* The call of aim_horizontally that follows it.
AimHorizontallyStep ==
    /\ phase = "aimed_vertically"
    /\ LET b == probe.outputs[1]
           r == AimHorizontally(b, probe.rotation, probe.look[1].azimuth,
                                time.delta)
       IN  probe' = [probe EXCEPT
                       !.outputs = Some([b EXCEPT !.yaw = r.yaw]),
                       !.rotation = r.rotation,
                       !.writes = r.writes,
                       !.before = Some(b)]
    /\ phase' = "aim"
    /\ time' = [time EXCEPT !.elapsed = @ + time.delta]
    /\ UNCHANGED <<frames, character, bot, locomotion_machine,
                   combat_machine, dying_machine, animations, physics, sent,
                   tick, observed>>

NextAim ==
    \/ ConstructAim
    \/ AimVerticallyStep
    \/ AimHorizontallyStep

SpecAim == InitAim /\ [][NextAim]_vars

\* ------------------------------------------------------------ projectiles
\* ProjectileDefinition.lifetime of Projectile::get_definition, in ms.
ProjectileLifetime(kind) == 10000

\* ProjectileDefinition.damage
ProjectileDamage(kind) ==
    CASE kind = "Plasma" -> 30
      [] kind = "Bullet" -> 15
      [] kind = "Rocket" -> 30

\* ProjectileDefinition.is_kinematic
IsKinematic(kind) == TRUE

WeaponOfShooter == "w1"
Shooter == "shooter"

\* The actors of the level in the order of ActorContainer::pair_iter.
ProjectileActors ==
    << [handle |-> "a1", body |-> "b1"],
       [handle |-> "a2", body |-> "b2"],
       [handle |-> Shooter, body |-> "b_shooter"] >>

\* WeaponContainer[owner].owner()
WeaponOwner(weapon) == Shooter

\* Projectile::new: only a plasma ball has a rigid body.
ProjectileNew(id, kind, owner) ==
    [id |-> id, kind |-> kind, owner |-> owner,
     body |-> IF kind = "Plasma" THEN "p_body" ELSE NONE,
     lifetime |-> ProjectileLifetime(kind)]

\* Projectile::is_dead
ProjectileIsDead(p) == p.lifetime <= 0

\* Projectile::kill
Kill(p) == [p EXCEPT !.lifetime = 0]

\* The inner loop over the actors: the handles of the actors whose body
\* is the given one, in pair_iter order.
ActorsOfBody(body) ==
    SelectSeq(ProjectileActors, LAMBDA a : a.body = body)

\* The ray test of Projectile::update over the hits sorted by distance:
\* [hits, killed]
RECURSIVE RayLoop(_, _, _)
RayLoop(p, result, i) ==
    IF i > Len(result) THEN [hits |-> << >>, killed |-> FALSE]
    ELSE IF result[i].kind = "Body"
    THEN LET struck == SelectSeq(ActorsOfBody(result[i].body),
                          LAMBDA a : p.owner # NONE
                                     /\ WeaponOwner(p.owner) # a.handle)
         IN  IF struck # << >>
             THEN [hits |-> << [actor |-> struck[1].handle,
                                who |-> WeaponOwner(p.owner)] >>,
                   killed |-> TRUE]
             ELSE RayLoop(p, result, i + 1)
    ELSE [hits |-> << >>, killed |-> TRUE]

\* The contacts of the projectile's body: [hits, killed]
RECURSIVE ContactLoop(_, _, _)
ContactLoop(p, contacts, i) ==
    IF i > Len(contacts) THEN [hits |-> << >>, killed |-> FALSE]
    ELSE LET matched == IF p.owner # NONE
                        THEN ActorsOfBody(contacts[i]) ELSE << >>
             struck == SelectSeq(matched,
                          LAMBDA a : WeaponOwner(p.owner) # a.handle)
             owner_contact ==
                 \E k \in DOMAIN matched :
                     WeaponOwner(p.owner) = matched[k].handle
             rest == ContactLoop(p, contacts, i + 1)
         IN  [hits |-> [k \in DOMAIN struck |->
                          [actor |-> struck[k].handle,
                           who |-> WeaponOwner(p.owner)]] \o rest.hits,
              killed |-> ~owner_contact \/ rest.killed]

\* Vec::dedup_by(|a, b| a.actor == b.actor): of a run of hits in a row on
\* one actor the first is kept.
RECURSIVE DedupByActor(_)
DedupByActor(hits) ==
    IF Len(hits) <= 1 THEN hits
    ELSE LET rest == DedupByActor(Tail(hits))
         IN  IF hits[1].actor = rest[1].actor
             THEN << hits[1] >> \o Tail(rest)
             ELSE << hits[1] >> \o rest

\* Projectile::update: [projectile, sent]
ProjectileUpdate(p, ray_result, contacts, dt) ==
    LET ray == RayLoop(p, ray_result, 1)
        touch == IF IsKinematic(p.kind) /\ p.body # NONE
                 THEN ContactLoop(p, contacts, 1)
                 ELSE [hits |-> << >>, killed |-> FALSE]
        p1 == IF ray.killed \/ touch.killed THEN Kill(p) ELSE p
        p2 == [p1 EXCEPT !.lifetime = @ - dt]
        impact == IF p2.lifetime <= 0
                  THEN << Msg("CreateEffect", p.id, 0, "BulletImpact"),
                          Msg("PlaySound", p.id, 0, "impact") >>
                  ELSE << >>
        hits == DedupByActor(ray.hits \o touch.hits)
    IN  [projectile |-> p2,
         sent |-> impact \o
                  [k \in DOMAIN hits |->
                     Msg("DamageActor", hits[k].actor,
                         ProjectileDamage(p.kind), hits[k].who)]]

\* ------------------------------------------- Projectile::update alone
HitBodies == {"b1", "b2", "b_shooter"}
RayHits == {StaticHit} \cup {BodyHit(b) : b \in HitBodies}
RayResults ==
    {<< >>} \cup {<< h >> : h \in RayHits}
            \cup {<< h, g >> : h \in RayHits, g \in RayHits}
ContactBodies == HitBodies \cup {"wall"}
ContactLists ==
    UNION { [1..n -> ContactBodies] : n \in 0..MaxContacts }

InitHits ==
    /\ BotAtRest
    /\ character = CharacterNew
    /\ time = [elapsed |-> 0, delta |-> TimeStep]
    /\ phase = "flying"
    /\ sent = << >>
    /\ \E kind \in {"Plasma", "Bullet"}, owner \in {WeaponOfShooter, NONE},
          ray_result \in RayResults, contacts \in ContactLists :
          probe = [projectile |-> ProjectileNew(1, kind, owner),
                   inputs |-> [ray_result |-> ray_result,
                               contacts |-> IF kind = "Plasma"
                                            THEN contacts ELSE << >>]]

\* One call of Projectile::update.
ProjectileUpdateStep ==
    /\ phase = "flying"
    /\ LET r == ProjectileUpdate(probe.projectile, probe.inputs.ray_result,
                                 probe.inputs.contacts, time.delta)
       IN  /\ probe' = [probe EXCEPT !.projectile = r.projectile]
           /\ sent' = r.sent
    /\ phase' = "updated"
    /\ UNCHANGED <<time, frames, character, bot, locomotion_machine,
                   combat_machine, dying_machine, animations, physics, tick,
                   observed>>

NextHits == ProjectileUpdateStep

SpecHits == InitHits /\ [][NextHits]_vars

\* ------------------------------------------------------- healing a bot
\* Character::heal
Heal(c, amount) ==
    LET health_ == c.health + Abs(amount)
    IN  [c EXCEPT !.health = IF health_ > 150 THEN 150 ELSE health_]

\* Points a heal restores.
HealAmounts == {20}

\* The level passes a heal on to the bot (Character::heal) while it
\* handles the messages of the frame.
HealActor(amount) ==
    /\ phase = "messages"
    /\ character' = Heal(character, amount)
    /\ sent' = << >>
    /\ tick' = NoTick
    /\ phase' = "engine"
    /\ UNCHANGED <<time, frames, bot, locomotion_machine, combat_machine,
                   dying_machine, animations, physics, probe, observed>>

\* A bot that is hit, healed, dies and is updated further.
NextHeal ==
    \/ \E dt \in Deltas : EngineUpdate(dt, 0, 0, Origin, TRUE)
    \/ \E dt \in Deltas : DeadEngineUpdate(dt, TRUE)
    \/ UpdateDying
    \/ \E targets \in {<< Self >>, << Self, Descriptor("a", PFar) >>} :
          UpdateFull(targets, ClearRays, Positions,
                     CHOOSE ammo \in Ammos : \A w \in DOMAIN ammo : ammo[w] > 0,
                     << >>, NoNavmesh)
    \/ HandleMessages
    \/ \E amount \in DamageAmounts : DamageActor(amount)
    \/ \E amount \in HealAmounts : HealActor(amount)

SpecHeal == Init /\ [][NextHeal]_vars

\* ------------------------------------------------- the weapon list alone
NextWeaponUnguarded(c) ==
    IF c.weapons # << >>
    THEN LET c1 == [c EXCEPT !.current_weapon = @ + 1]
         IN  [character |-> c1,
              sent |-> RequestCurrentWeaponVisible(c, "hide")
                       \o RequestCurrentWeaponVisible(c1, "show")]
    ELSE [character |-> c, sent |-> << >>]

\* Character::next_weapon: [character, sent]
NextWeapon(c) ==
    IF c.weapons # << >> /\ c.current_weapon < Len(c.weapons) - 1
    THEN LET c1 == [c EXCEPT !.current_weapon = @ + 1]
         IN  [character |-> c1,
              sent |-> RequestCurrentWeaponVisible(c, "hide")
                       \o RequestCurrentWeaponVisible(c1, "show")]
    ELSE [character |-> c, sent |-> << >>]

PrevWeaponShowsOnly(c) ==
    IF c.current_weapon > 0
    THEN LET c1 == [c EXCEPT !.current_weapon = @ - 1]
         IN  [character |-> c1,
              sent |-> RequestCurrentWeaponVisible(c1, "show")]
    ELSE [character |-> c, sent |-> << >>]

\* Character::prev_weapon: [character, sent]
PrevWeapon(c) ==
    IF c.current_weapon > 0
    THEN LET c1 == [c EXCEPT !.current_weapon = @ - 1]
         IN  [character |-> c1,
              sent |-> RequestCurrentWeaponVisible(c, "hide")
                       \o RequestCurrentWeaponVisible(c1, "show")]
    ELSE [character |-> c, sent |-> << >>]

\* The level's handler of ShowWeapon: Weapon::set_visibility(state) for
\* each message in the order of the channel.
RECURSIVE ApplyShowWeapon(_, _, _)
ApplyShowWeapon(visible, messages, i) ==
    IF i > Len(messages) THEN visible
    ELSE ApplyShowWeapon(
            IF messages[i].type = "ShowWeapon"
            THEN [visible EXCEPT ![messages[i].subject] =
                                     (messages[i].note = "show")]
            ELSE visible,
            messages, i + 1)

OwnedHandles == {WeaponHandles[i] : i \in DOMAIN WeaponHandles}

\* A character with a sender and no weapon; a weapon is visible from
\* Weapon::new on.
InitWeapons ==
    /\ BotAtRest
    /\ character = CharacterNew
    /\ time = [elapsed |-> 0, delta |-> 0]
    /\ phase = "new"
    /\ sent = << >>
    /\ probe = [visible |-> [w \in OwnedHandles |-> TRUE],
                before |-> CharacterNew]

\* A call on the weapon list, and the level handling its messages.
WeaponListCall(r, name) ==
    /\ character' = r.character
    /\ sent' = r.sent
    /\ probe' = [visible |-> ApplyShowWeapon(probe.visible, r.sent, 1),
                 before |-> character]
    /\ phase' = name
    /\ UNCHANGED <<time, frames, bot, locomotion_machine, combat_machine,
                   dying_machine, animations, physics, tick, observed>>

AddWeaponStep ==
    \E w \in OwnedHandles :
        /\ \A i \in DOMAIN character.weapons : character.weapons[i] # w
        /\ WeaponListCall(AddWeaponTo(character, w), "add_weapon")

NextWeaponStep ==
    \E r \in {NextWeapon(character)} : WeaponListCall(r, "next_weapon")

PrevWeaponStep ==
    \E r \in {PrevWeapon(character)} : WeaponListCall(r, "prev_weapon")

SetCurrentWeaponStep ==
    \E i \in 0..Len(WeaponHandles) :
        \E r \in {SetCurrentWeapon(character, i)} :
            WeaponListCall(r, "set_current_weapon")

NextWeapons ==
    \/ AddWeaponStep
    \/ NextWeaponStep
    \/ PrevWeaponStep
    \/ SetCurrentWeaponStep

SpecWeapons == InitWeapons /\ [][NextWeapons]_vars

\* ------------------------------------------------ the projectile container
\* The model node of a projectile and, for a plasma ball, its body.
ProjectileModel(id) == << "projectile", id >>
ProjectileBody(p) == << p.body, p.id >>

\* Projectile::clean_up: the body, when there is one, and the model leave
\* the scene.
ProjectileCleanUp(p, scene) ==
    [scene EXCEPT
        !.bodies = IF p.body # NONE THEN @ \ {ProjectileBody(p)} ELSE @,
        !.nodes = @ \ {ProjectileModel(p.id)}]

\* The scene before a shot: the level's own node, no body.
ProjectileScene ==
    [nodes |-> {<< "level", 0 >>}, animations |-> {}, bodies |-> {}]

RetainAll(pool) == pool

\* Pool::retain(|proj| !proj.is_dead())
Retain(pool) == SelectSeq(pool, LAMBDA p : ~ProjectileIsDead(p))

\* The loop of ProjectileContainer::update over the pool:
\* [pool, sent, scene, updated_dead]
RECURSIVE ContainerLoop(_, _, _, _, _)
ContainerLoop(pool, inputs, scene, dt, i) ==
    IF i > Len(pool)
    THEN [pool |-> << >>, sent |-> << >>, scene |-> scene,
          updated_dead |-> {}]
    ELSE LET r == ProjectileUpdate(pool[i], inputs[i].ray_result,
                                   inputs[i].contacts, dt)
             s1 == IF ProjectileIsDead(r.projectile)
                   THEN ProjectileCleanUp(r.projectile, scene) ELSE scene
             rest == ContainerLoop(pool, inputs, s1, dt, i + 1)
         IN  [pool |-> << r.projectile >> \o rest.pool,
              sent |-> r.sent \o rest.sent,
              scene |-> rest.scene,
              updated_dead |->
                  (IF ProjectileIsDead(pool[i]) THEN {pool[i].id} ELSE {})
                      \cup rest.updated_dead]

\* ProjectileContainer::update: [pool, sent, scene, updated_dead, died]
ContainerUpdate(pool, inputs, scene, dt) ==
    LET r == ContainerLoop(pool, inputs, scene, dt, 1)
    IN  [pool |-> Retain(r.pool), sent |-> r.sent, scene |-> r.scene,
         updated_dead |-> r.updated_dead,
         died |-> {r.pool[k].id : k \in {j \in DOMAIN r.pool :
                                            ProjectileIsDead(r.pool[j])}}]

ProjectileIds == 1..MaxProjectiles

\* What one projectile meets in an update.
FlightInputs ==
    { [ray_result |-> << >>, contacts |-> << >>],
      [ray_result |-> << StaticHit >>, contacts |-> << >>],
      [ray_result |-> << >>, contacts |-> << "wall" >>] }

\* What is recorded of a projectile: the impact effects and sounds it has
\* emitted, whether it was updated while dead, the update it died in.
NoFlightLog == [effects |-> 0, sounds |-> 0, updated_dead |-> FALSE,
                died |-> FALSE, died_now |-> FALSE]

InitProjectiles ==
    /\ BotAtRest
    /\ character = CharacterNew
    /\ time = [elapsed |-> 0, delta |-> TimeStep]
    /\ phase = "flying"
    /\ sent = << >>
    /\ probe = [pool |-> << >>, spawned |-> 0, scene |-> ProjectileScene,
                inputs |-> << >>,
                log |-> [id \in ProjectileIds |-> NoFlightLog]]

\* A weapon fires: Projectile::new and ProjectileContainer::add.
AddProjectile ==
    /\ phase = "flying"
    /\ probe.spawned < MaxProjectiles
    /\ \E kind \in {"Plasma", "Bullet"} :
          LET p == ProjectileNew(probe.spawned + 1, kind, WeaponOfShooter)
          IN  probe' = [probe EXCEPT
                          !.pool = Append(@, p),
                          !.spawned = @ + 1,
                          !.scene.nodes = @ \cup {ProjectileModel(p.id)},
                          !.scene.bodies =
                              IF p.body # NONE
                              THEN @ \cup {ProjectileBody(p)} ELSE @]
    /\ UNCHANGED <<time, frames, phase, character, bot, locomotion_machine,
                   combat_machine, dying_machine, animations, physics, sent,
                   tick, observed>>

\* How many messages of a type name the projectile.
CountOf(messages, type, id) ==
    Cardinality({i \in DOMAIN messages :
                    messages[i].type = type /\ messages[i].subject = id
                    /\ messages[i].note \in {"BulletImpact", "impact"}})

\* The record of the projectiles after a container update with result r.
FlightLog(log, r) ==
    [id \in ProjectileIds |->
        [effects |-> Min(2, log[id].effects
                              + CountOf(r.sent, "CreateEffect", id)),
         sounds |-> Min(2, log[id].sounds
                             + CountOf(r.sent, "PlaySound", id)),
         updated_dead |-> log[id].updated_dead \/ id \in r.updated_dead,
         died |-> log[id].died \/ id \in r.died,
         died_now |-> id \in r.died]]

\* Engine::update before the level's update: the physics step leaves each
\* projectile its ray hits and the contacts of its body.
PhysicsStep ==
    /\ phase = "flying"
    /\ probe.pool # << >>
    /\ \E inputs \in [DOMAIN probe.pool -> FlightInputs] :
          probe' = [probe EXCEPT !.inputs = inputs]
    /\ phase' = "level"
    /\ UNCHANGED <<time, frames, character, bot, locomotion_machine,
                   combat_machine, dying_machine, animations, physics, sent,
                   tick, observed>>

\* One ProjectileContainer::update of the level's tick; the channel holds
\* the messages of this update.
ContainerUpdateStep ==
    /\ phase = "level"
    /\ \E r \in {ContainerUpdate(probe.pool, probe.inputs, probe.scene,
                                  time.delta)} :
          /\ sent' = r.sent
          /\ probe' = [probe EXCEPT !.pool = r.pool,
                                    !.scene = r.scene,
                                    !.inputs = << >>,
                                    !.log = FlightLog(probe.log, r)]
    /\ phase' = "flying"
    /\ UNCHANGED <<time, frames, character, bot, locomotion_machine,
                   combat_machine, dying_machine, animations, physics, tick,
                   observed>>

NextProjectiles ==
    \/ AddProjectile
    \/ PhysicsStep
    \/ ContainerUpdateStep

\* The main loop never stops: while projectiles fly the engine's update
\* comes, and after it the level's.  The two steps are named by the phase
\* they leave and enter; PhysicsStep and ContainerUpdateStep are the only
\* steps of NextProjectiles that do so, and are enabled whenever these are.
EngineTurn == phase = "flying" /\ probe.pool # << >> /\ phase' = "level"
LevelTurn == phase = "level" /\ phase' = "flying"

SpecProjectiles ==
    InitProjectiles /\ [][NextProjectiles]_vars
        /\ WF_phase(EngineTurn) /\ WF_phase(LevelTurn)

\* ============================================================ claims
\* A step of Bot::update, either branch.
UpdateStep == phase = "level" /\ phase' = "messages"

\* C1: every call of Bot::update runs exactly one branch, the dying-only
\* one (the dying machine alone is evaluated, nothing else of the bot
\* changes) when health <= 0 and the full one (locomotion and combat
\* machines evaluated, the dying machine untouched) otherwise.
C1_OneBranchByHealth ==
    [][UpdateStep =>
          IF character.health <= 0
          THEN /\ tick'.branch = "dying"
               /\ UNCHANGED <<locomotion_machine, combat_machine, bot,
                              character, sent>>
          ELSE /\ tick'.branch = "full"
               /\ UNCHANGED dying_machine
               /\ bot'.last_health = character.health]_vars

C1_Witness ==
    phase = "messages" /\ tick.branch = "dying" /\ character.health = 0

\* The candidates of the probe that select_target may pick: not the bot,
\* inside the frustum, no static triangle on the ray (a ray exists when
\* the candidate is not at the bot's own position).
RayHitsStatic(position, p, ray_cast) ==
    /\ p # position
    /\ \E k \in DOMAIN ray_cast[p] : ray_cast[p][k].kind = "StaticTriangle"

RayHitsOtherBody(position, p, ray_cast) ==
    /\ p # position
    /\ \E k \in DOMAIN ray_cast[p] :
          /\ ray_cast[p][k].kind = "Body"
          /\ ray_cast[p][k].body # SelfBody

Survivors ==
    LET in == probe.inputs[1]
    IN  {i \in DOMAIN in.targets :
            /\ in.targets[i].handle # SelfHandle
            /\ in.targets[i].position \in bot.frustum
            /\ ~RayHitsStatic(physics.position, in.targets[i].position,
                              in.ray_cast)}

\* C2: the target select_target leaves is a candidate of the list that is
\* not the bot, lies in the frustum and has no static geometry on its
\* ray, and whenever two or more candidates survive it is one at the
\* smallest squared distance.
C2_NearestVisible ==
    phase = "selected" =>
        LET in == probe.inputs[1]
        IN  /\ bot.target # None =>
                 \E i \in Survivors :
                    /\ in.targets[i].handle = bot.target[1].handle
                    /\ in.targets[i].position = bot.target[1].position
            /\ Cardinality(Survivors) >= 2 =>
                 /\ bot.target # None
                 /\ \A i \in Survivors :
                       SqrDistance(physics.position, bot.target[1].position)
                       <= SqrDistance(physics.position, in.targets[i].position)

C2_Witness ==
    /\ phase = "selected"
    /\ bot.target # None
    /\ \E i, j \in Survivors :
          /\ i < j
          /\ SqrDistance(physics.position,
                         probe.inputs[1].targets[j].position)
             < SqrDistance(physics.position,
                           probe.inputs[1].targets[i].position)
          /\ bot.target[1].handle = probe.inputs[1].targets[j].handle

\* C3: a candidate whose ray is blocked by a body other than the bot's
\* own is never the selected target.
C3_OtherBodyBlocks ==
    phase = "selected" /\ bot.target # None =>
        ~RayHitsOtherBody(physics.position, bot.target[1].position,
                          probe.inputs[1].ray_cast)

\* C4: the target after select_target does not depend on the previous
\* target: the bot and its twin, which differ only in their previous
\* target, end with the same target, and it is None when no candidate
\* survives.
C4_NoHysteresis ==
    phase = "selected" =>
        /\ bot.target = probe.twin_target
        /\ Survivors = {} => bot.target = None

C4_Witness ==
    /\ phase = "selected"
    /\ probe.previous # None
    /\ probe.previous # probe.twin_previous
    /\ Survivors = {}
    /\ bot.target = None

\* A machine has an active state or an active transition, never both and
\* never two transitions; the blend clock runs only in a transition.
OneActive(m) ==
    /\ (m.active_state = NONE) <=> (m.active_transition # 0)
    /\ m.active_transition = 0 => m.elapsed_time = 0

\* A machine that enters a new active state does so by completing a
\* transition into it, after deltas of at least `duration` since it fired.
Arrived(m, m2, transitions, completed, blend_total, duration) ==
    (m2.active_state # NONE /\ m2.active_state # m.active_state) =>
        /\ completed # 0
        /\ transitions[completed].dest = m2.active_state
        /\ blend_total >= duration

\* C5: in each machine at most one transition is active, and a destination
\* becomes the active state only after evaluate calls whose deltas total
\* at least the transition's duration: 0.5 s in the locomotion machine,
\* 0.2 s into HitReaction and 0.5 s otherwise in the combat machine, 1.5 s
\* in the dying machine.
C5_BlendDurations ==
    [][/\ OneActive(locomotion_machine')
       /\ OneActive(combat_machine')
       /\ OneActive(dying_machine')
       /\ Arrived(locomotion_machine, locomotion_machine',
                  LocomotionTransitions, tick'.completed.locomotion,
                  tick'.blend_total.locomotion, 500)
       /\ Arrived(combat_machine, combat_machine', CombatTransitions,
                  tick'.completed.combat, tick'.blend_total.combat,
                  IF combat_machine'.active_state = "HitReaction"
                  THEN 200 ELSE 500)
       /\ Arrived(dying_machine, dying_machine', DyingTransitions,
                  tick'.completed.dying, tick'.blend_total.dying, 1500)]_vars

C5_Witness ==
    /\ phase = "messages"
    /\ tick.completed.locomotion # 0
    /\ tick.fired.locomotion = 0
    /\ locomotion_machine.active_state = "Walk"

\* The gate of a transition, from the flags of the tick.
LocomotionGate(name, t) ==
    CASE name = "Idle->Walk" -> ~t.in_close_combat
      [] name = "Walk->Idle" -> t.in_close_combat
      [] name \in {"Walk->Jump", "Idle->Jump"} -> t.need_jump
      [] name = "Jump->Falling" -> ~t.has_ground_contact
      [] name = "Falling->Idle" -> t.has_ground_contact

CombatGate(name, t) ==
    CASE name = "Aim->Whip" -> t.in_close_combat
      [] name = "Whip->Aim" -> ~t.in_close_combat
      [] name \in {"Whip->HitReaction", "Aim->HitReaction"} -> t.was_damaged
      [] name = "HitReaction->Aim" -> t.can_aim

\* A transition starts on a call only from its source state, with no
\* transition in flight, and a transition newly in flight is the one that
\* started on the call.
StartsOnlyFrom(m, m2, transitions, fired) ==
    /\ fired # 0 =>
          /\ m.active_transition = 0
          /\ m.active_state = transitions[fired].source
    /\ m.active_transition # 0 => fired = 0
    /\ (m2.active_transition # 0
        /\ m2.active_transition # m.active_transition) =>
          fired = m2.active_transition

\* C6: a transition of the locomotion or combat machine starts on an
\* evaluate call only if its gate is true on that call, the active state
\* is its source and no transition is in flight; none starts while one is
\* in flight.
C6_TransitionStart ==
    [][UpdateStep =>
          /\ StartsOnlyFrom(locomotion_machine, locomotion_machine',
                            LocomotionTransitions, tick'.fired.locomotion)
          /\ StartsOnlyFrom(combat_machine, combat_machine',
                            CombatTransitions, tick'.fired.combat)
          /\ tick'.fired.locomotion # 0 =>
                LocomotionGate(
                    LocomotionTransitions[tick'.fired.locomotion].name, tick')
          /\ tick'.fired.combat # 0 =>
                CombatGate(CombatTransitions[tick'.fired.combat].name,
                           tick')]_vars

C6_Witness ==
    /\ phase = "messages"
    /\ tick.fired.locomotion # 0
    /\ LocomotionTransitions[tick.fired.locomotion].name = "Idle->Jump"
    /\ tick.fired.combat # 0
    /\ CombatTransitions[tick.fired.combat].name = "Aim->Whip"

\* C7: a footstep PlaySound is sent on a tick only if, after the tick's
\* evaluation, the locomotion machine is in Walk or in a transition into
\* Walk, and the bot has ground contact.
C7_FootstepsWalkingGrounded ==
    (phase = "messages"
     /\ \E i \in DOMAIN sent : sent[i].type = "PlaySound") =>
        /\ physics.ground_contact
        /\ \/ locomotion_machine.active_state = "Walk"
           \/ /\ locomotion_machine.active_transition # 0
              /\ LocomotionTransitions[
                    locomotion_machine.active_transition].dest = "Walk"

C7_Witness ==
    /\ phase = "messages"
    /\ \E i \in DOMAIN sent : sent[i].type = "PlaySound"
    /\ locomotion_machine.active_state = NONE

\* C8: a melee DamageActor (20, against the target) is sent only for an
\* impact signal that fired on a tick on which the bot was in close
\* combat.
C8_MeleeOnlyAtImpact ==
    phase = "messages" =>
        \A i \in DOMAIN sent :
            sent[i].type = "DamageActor" =>
                /\ sent[i].note = "yes"
                /\ sent[i].amount = 20
                /\ bot.target # None
                /\ sent[i].subject = bot.target[1].handle

\* C9: at the end of every full-update tick the event queues of the whip
\* clip and of the walk clip are empty.
C9_QueuesDrained ==
    (phase = "messages" /\ tick.branch = "full") =>
        /\ animations.whip_events = << >>
        /\ animations.walk_events = << >>

C11_DamageFiresHitReaction ==
    [][(UpdateStep /\ tick'.branch = "full" /\ tick'.was_damaged
        /\ combat_machine.active_state \in {"Aim", "Whip"}) =>
          /\ tick'.fired.combat # 0
          /\ CombatTransitions[tick'.fired.combat].dest = "HitReaction"]_vars

\* The elapsed time since the tick that last detected damage.
SinceHit == time.elapsed - observed.hit_time[1]

ArmorLeft(armor) == IF armor > 0 THEN armor ELSE 0

\* C13: Character::damage(amount) with armor <= 0 lowers the health by
\* |amount| and leaves the armor; with armor > 0 it lowers the armor by
\* |amount| and the health by the part of |amount| above the armor; the
\* health plus the armor left drops by |amount| in every case.
C13_DamageArithmetic ==
    phase = "damaged" =>
        LET in == probe.inputs[1]
            a == IF in.amount < 0 THEN 0 - in.amount ELSE in.amount
        IN  /\ in.armor <= 0 =>
                  /\ character.health = in.health - a
                  /\ character.armor = in.armor
            /\ in.armor > 0 =>
                  /\ character.armor = in.armor - a
                  /\ character.health =
                        in.health - (IF a > in.armor THEN a - in.armor ELSE 0)
            /\ (in.health = 100 /\ in.armor = 0 /\ a = 30) =>
                  character.health = 70
            /\ character.health + ArmorLeft(character.armor)
                  = in.health + ArmorLeft(in.armor) - a

\* A hit larger than the armor left: the rest reaches the health.
C13_Witness ==
    /\ phase = "damaged"
    /\ probe.inputs[1].armor > 0
    /\ character.armor < 0
    /\ character.health < probe.inputs[1].health

\* C14: the path is empty or the cursor is below its length, in every
\* state; on a tick the cursor grows by at most one, and only when the
\* path is not empty, the waypoint at the cursor is within 2.0 of the bot
\* and it is not the last one.
C14_CursorInPath ==
    /\ [](bot.path = << >> \/ bot.current_path_point < Len(bot.path))
    /\ [][UpdateStep =>
            /\ bot'.current_path_point <= bot.current_path_point + 1
            /\ bot'.current_path_point > bot.current_path_point =>
                  /\ bot.path # << >>
                  /\ bot.current_path_point < Len(bot.path) - 1
                  /\ SqrDistance(bot.path[bot.current_path_point + 1],
                                 physics.position) <= 20 * 20]_vars

\* The cursor has moved on to the last waypoint of a path of three.
C14_Witness ==
    /\ phase = "messages"
    /\ Len(bot.path) = 3
    /\ bot.current_path_point = 2

\* C15: select_point_of_interest changes the point of interest only on a
\* tick at least 1.25 s after the point of interest was last updated, by
\* a selection or by set_point_of_interest, and so at least 1.25 s after
\* it last changed.
C15_PoiRateLimited ==
    [][(UpdateStep /\ bot'.point_of_interest # bot.point_of_interest) =>
          /\ time.elapsed - bot.last_poi_update_time >= 1250
          /\ observed.poi_time # None =>
                time.elapsed - observed.poi_time[1] >= 1250]_vars

\* A reselection that follows an earlier update: the point of interest
\* changes on a tick later than the first one that can select.
C15_Witness ==
    /\ phase = "messages"
    /\ tick.branch = "full"
    /\ observed.poi_time = Some(time.elapsed)
    /\ time.elapsed >= 1250 + TimeStep
    /\ bot.point_of_interest = PNear

\* C16: a tick that asks the navmesh for a path comes at least 1.0 s
\* after the previous tick that asked for one.
C16_PathQueriesApart ==
    [][(UpdateStep /\ tick'.path_query /\ observed.query_time # None) =>
          time.elapsed - observed.query_time[1] >= 1000]_vars

\* The messages of a type among those sent.
SentOfType(messages, type) ==
    {i \in DOMAIN messages : messages[i].type = type}

\* C17: a tick with health <= 0 evaluates the Dying Machine alone: the
\* target, point of interest, path, cursor, aim-lock timer, last health
\* and the Locomotion and Combat machines stay as they are and no
\* message is sent.
C17_DeadTickDyingOnly ==
    [][(UpdateStep /\ character.health <= 0) =>
          /\ tick'.branch = "dying"
          /\ bot' = bot
          /\ locomotion_machine' = locomotion_machine
          /\ combat_machine' = combat_machine
          /\ character' = character
          /\ sent' = sent
          /\ \A i \in DOMAIN sent' :
                sent'[i].type \notin {"ShootWeapon", "DamageActor",
                                      "PlaySound"}]_vars

\* A dead tick of a bot that had a target and whose last hit was never
\* seen by a full update.
C17_Witness ==
    /\ phase = "messages"
    /\ tick.branch = "dying"
    /\ bot.target # None
    /\ bot.last_health > character.health
    /\ dying_machine.active_transition # 0

\* C18: the Dying Machine leaves Dying for good: once Dying is not its
\* active state it never is again, every transition it has goes from
\* Dying to Dead, and can_be_removed() stays true once true.
C18_DyingIrreversible ==
    /\ [](\A i \in DOMAIN DyingTransitions :
            /\ DyingTransitions[i].source = "Dying"
            /\ DyingTransitions[i].dest = "Dead")
    /\ [](dying_machine.active_state \in {"Dying", NONE, "Dead"})
    /\ [][dying_machine.active_state # "Dying" =>
            dying_machine'.active_state # "Dying"]_vars
    /\ [][CanBeRemoved(dying_machine) =>
            CanBeRemoved(dying_machine')]_vars

\* A dead tick after the one that reached Dead.
C18_Witness ==
    /\ phase = "messages"
    /\ tick.branch = "dying"
    /\ CanBeRemoved(dying_machine)
    /\ tick.completed.dying = 0

\* C19: a bot with health <= 0 whose update keeps being called is
\* eventually removable.
C19_DeadEventuallyRemovable ==
    IsDead(character.health) ~> CanBeRemoved(dying_machine)

\* The tick on which Dying->Dead completes, 1.5 s after it fired.
C19_Witness ==
    /\ phase = "messages"
    /\ tick.branch = "dying"
    /\ tick.completed.dying # 0
    /\ tick.blend_total.dying >= 1500
    /\ CanBeRemoved(dying_machine)

\* C20: a full-update tick sends a ShootWeapon exactly when the bot is
\* not in close combat, aiming is unlocked, the Combat Machine has Aim as
\* its active state, a target exists and the current weapon index names a
\* weapon the bot holds; it sends at most one.
C20_ShootExactlyWhen ==
    [][(UpdateStep /\ tick'.branch = "full") =>
          LET shots == SentOfType(sent', "ShootWeapon")
              may == /\ ~tick'.in_close_combat
                     /\ tick'.can_aim
                     /\ combat_machine'.active_state = "Aim"
                     /\ bot'.target # None
                     /\ character'.current_weapon < Len(character'.weapons)
          IN  /\ SentOfType(sent, "ShootWeapon") = {}
              /\ Cardinality(shots) <= 1
              /\ (shots # {}) <=> may]_vars

\* A shot is sent.
C20_Witness ==
    /\ phase = "messages"
    /\ tick.branch = "full"
    /\ SentOfType(sent, "ShootWeapon") # {}
    /\ ~tick.was_damaged

\* C21: right after Bot::new the Locomotion Machine has Idle, the Combat
\* Machine Aim and the Dying Machine Dying as the active state, and no
\* machine has a transition in flight.
C21_DesignatedEntryStates ==
    (frames = 0 /\ phase = "engine") =>
        /\ locomotion_machine.active_state = "Idle"
        /\ combat_machine.active_state = "Aim"
        /\ dying_machine.active_state = "Dying"
        /\ locomotion_machine.active_transition = 0
        /\ combat_machine.active_transition = 0
        /\ dying_machine.active_transition = 0

\* C22: after on_actor_removed(h) the target does not reference h: a
\* target that referenced h is None, any other target, or none, is what
\* it was.
C22_RemovedActorNotTargeted ==
    phase = "removed" =>
        LET h == probe.inputs[1].handle
            before == probe.previous
        IN  /\ bot.target # None => bot.target[1].handle # h
            /\ (before # None /\ before[1].handle = h) => bot.target = None
            /\ (before = None \/ before[1].handle # h) => bot.target = before

\* Both cases: the target was the removed actor, the target was another.
C22_Witness ==
    /\ phase = "removed"
    /\ probe.previous # None
    /\ probe.previous[1].handle = probe.inputs[1].handle
    /\ bot.target = None

\* C23: a bot saved and loaded back has the kind, the character's stats,
\* the model, the target, the state of the locomotion, combat and dying
\* machines and the aim-lock cooldown it had.
C23_SaveLoadRoundTrip ==
    [][phase' = "loaded" =>
          /\ bot'.kind = bot.kind
          /\ character' = character
          /\ bot'.model = bot.model
          /\ bot'.target = bot.target
          /\ locomotion_machine' = locomotion_machine
          /\ combat_machine' = combat_machine
          /\ dying_machine' = dying_machine
          /\ bot'.restoration_time = bot.restoration_time]_vars

\* The kinds of an enum.
KindSet(kinds) == {kinds[i] : i \in DOMAIN kinds}

\* An id loaded into a kind: a defined id gives the kind with that id, any
\* other id gives an error and no kind.
LoadedRight(id, out, kinds, first, last) ==
    /\ id \in first..last =>
          /\ out.ok
          /\ out.kind = kinds[id - first + 1]
    /\ id \notin first..last =>
          /\ ~out.ok
          /\ out.kind \notin KindSet(kinds)

\* C24: for BotKind, WeaponKind and ProjectileKind a kind converted to
\* its id and back is the same kind, and an id outside the defined ones
\* loads as an error, never as a kind.
C24_KindIdsRoundTrip ==
    phase = "kinds_loaded" =>
        LET in == probe.inputs[1]
            out == probe.outputs[1]
        IN  /\ \A k \in KindSet(BotKinds) :
                  BotKindFromId(BotKindId(k)) = Ok(k)
            /\ \A k \in KindSet(WeaponKinds) :
                  WeaponKindNew(WeaponKindId(k)) = Ok(k)
            /\ \A k \in KindSet(ProjectileKinds) :
                  ProjectileKindNew(ProjectileKindId(k)) = Ok(k)
            /\ LoadedRight(in.bot_id, out.bot, BotKinds, 0, 2)
            /\ LoadedRight(in.weapon_id, out.weapon, WeaponKinds, 0, 3)
            /\ LoadedRight(in.projectile_id, out.projectile,
                           ProjectileKinds, 0, 2)

\* A save with an unknown bot kind among known other kinds.
C24_Witness ==
    /\ phase = "kinds_loaded"
    /\ probe.inputs[1].bot_id = 3
    /\ ~probe.outputs[1].bot.ok
    /\ probe.outputs[1].weapon = Ok("RocketLauncher")
    /\ probe.outputs[1].projectile = Ok("Rocket")

\* C25: Bot::new fails, and gives no bot, exactly when the model or one
\* of the nine clips of the kind cannot be loaded.
C25_ConstructionFailure ==
    /\ Cardinality(Resources) = 10
    /\ phase \in {"constructed", "failed", "cleaned"} =>
          /\ probe.inputs[1] # Resources =>
                /\ phase = "failed"
                /\ probe.outputs = None
          /\ probe.inputs[1] = Resources => phase # "failed"
    /\ phase = "constructed" => probe.outputs # None

\* The last clip loaded is the one missing: every earlier step was done.
C25_Witness ==
    /\ phase = "failed"
    /\ probe.inputs[1] = Resources \ {"dead"}
    /\ probe.outputs = None
    /\ "dying" \in probe.scene.animations

\* C26: after Bot::clean_up the scene holds no clip of the bot's three
\* machines, nor the bot's body, nor its pivot and the nodes under it.
C26_CleanUpReleases ==
    phase = "cleaned" =>
        LET b == probe.outputs[1]
        IN  /\ probe.scene.animations
                  \cap (b.locomotion \cup b.combat \cup b.dying) = {}
            /\ probe.scene.animations \cap Resources = {}
            /\ b.body \notin probe.scene.bodies
            /\ probe.scene.nodes \cap {b.pivot, b.model, "weapon_pivot"} = {}

\* A cleaned scene: what was there before the bot is all that is left.
C26_Witness ==
    /\ phase = "cleaned"
    /\ probe.scene = SceneNew

\* The transitions out of the active state whose gate is true on a tick.
OpenLocomotion(m, t) ==
    {i \in DOMAIN LocomotionTransitions :
        /\ LocomotionTransitions[i].source = m.active_state
        /\ LocomotionGate(LocomotionTransitions[i].name, t)}

OpenCombat(m, t) ==
    {i \in DOMAIN CombatTransitions :
        /\ CombatTransitions[i].source = m.active_state
        /\ CombatGate(CombatTransitions[i].name, t)}

\* Of the open transitions the one declared first fires.
FirstFires(m, open, fired) ==
    (m.active_transition = 0 /\ open # {}) =>
        /\ fired \in open
        /\ \A j \in open : fired <= j

\* C27: a machine that is not transitioning fires, of the transitions
\* out of its active state whose gate is true on the call, the one
\* declared first: damaged in Whip out of close combat it is Whip->Aim,
\* damaged in Aim in close combat it is Aim->Whip.
C27_FirstDeclaredFires ==
    [][(UpdateStep /\ tick'.branch = "full") =>
          /\ FirstFires(locomotion_machine,
                        OpenLocomotion(locomotion_machine, tick'),
                        tick'.fired.locomotion)
          /\ FirstFires(combat_machine, OpenCombat(combat_machine, tick'),
                        tick'.fired.combat)
          /\ (combat_machine.active_state = "Whip" /\ tick'.was_damaged
              /\ ~tick'.in_close_combat) =>
                CombatTransitions[tick'.fired.combat].name = "Whip->Aim"
          /\ (combat_machine.active_state = "Aim" /\ tick'.was_damaged
              /\ tick'.in_close_combat) =>
                CombatTransitions[tick'.fired.combat].name = "Aim->Whip"]_vars

\* Damaged in Whip with the target out of reach: Whip->Aim has fired.
C27_Witness ==
    /\ phase = "messages"
    /\ tick.branch = "full"
    /\ tick.was_damaged
    /\ ~tick.in_close_combat
    /\ tick.fired.combat # 0
    /\ CombatTransitions[tick.fired.combat].name = "Whip->Aim"

\* C28: rebuild_path with both closest-point queries resolved and the
\* build successful leaves the returned waypoints in reversed order, the
\* cursor at 0 and the rebuild time at the elapsed time; with a query
\* that does not resolve the path, the cursor and the rebuild time stay.
C28_RebuildPath ==
    phase = "rebuilt" =>
        LET nav == probe.inputs[1].nav
            before == probe.before
            n == Len(nav.path)
        IN  /\ (nav.from_index /\ nav.to_index /\ nav.build_ok) =>
                  /\ Len(bot.path) = n
                  /\ \A i \in 1..n : bot.path[i] = nav.path[n + 1 - i]
                  /\ bot.current_path_point = 0
                  /\ bot.last_path_rebuild_time = time.elapsed
            /\ (~nav.from_index \/ ~nav.to_index) =>
                  /\ bot.path = before.path
                  /\ bot.current_path_point = before.current_path_point
                  /\ bot.last_path_rebuild_time
                        = before.last_path_rebuild_time

\* A path of three waypoints replaces an older path followed to its end.
C28_Witness ==
    /\ phase = "rebuilt"
    /\ probe.before.current_path_point = 1
    /\ bot.path = << Origin, PNear, PFar >>
    /\ bot.current_path_point = 0
    /\ bot.last_path_rebuild_time = time.elapsed

\* The items not picked up.
Live(items) == {i \in DOMAIN items : ~items[i].picked_up}

\* C29: a due reselection makes the point of interest the position of
\* the item not picked up that is nearest to the bot, keeps it when every
\* item is picked up, and refreshes the reselection time in both cases.
C29_NearestLiveItem ==
    (phase = "poi_selected"
     /\ time.elapsed - probe.before.last_poi_update_time >= 1250) =>
        LET items == probe.inputs[1].items
            live == Live(items)
        IN  /\ live # {} =>
                  \E i \in live :
                      /\ bot.point_of_interest = items[i].position
                      /\ \A j \in live :
                            SqrDistance(items[i].position, physics.position)
                              <= SqrDistance(items[j].position,
                                             physics.position)
            /\ live = {} =>
                  bot.point_of_interest = probe.before.point_of_interest
            /\ bot.last_poi_update_time = time.elapsed

\* A picked-up item is the nearest and a farther live one is chosen.
C29_Witness ==
    /\ phase = "poi_selected"
    /\ physics.position = PNear
    /\ probe.inputs[1].items
          = << Item(PFar, FALSE), Item(PNear, TRUE), Item(PNearHigh, FALSE) >>
    /\ bot.point_of_interest = PNearHigh
    /\ probe.before.point_of_interest = Origin

\* The weapons held that have ammo.
Loaded(c, ammo) == {i \in DOMAIN c.weapons : ammo[c.weapons[i]] > 0}

\* C30: select_weapon with an empty current weapon and a held weapon
\* that has ammo ends with a held weapon with ammo as the current one; in
\* every other case the current weapon stays and no ShowWeapon is sent.
C30_SelectWeapon ==
    phase = "weapon_selected" =>
        LET c0 == probe.before
            ammo == probe.inputs[1].ammo
            holds == c0.current_weapon < Len(c0.weapons)
            empty == holds /\ ammo[c0.weapons[c0.current_weapon + 1]] = 0
        IN  /\ character.weapons = c0.weapons
            /\ (empty /\ Loaded(c0, ammo) # {}) =>
                  /\ character.current_weapon < Len(character.weapons)
                  /\ character.current_weapon + 1 \in Loaded(c0, ammo)
            /\ ~(empty /\ Loaded(c0, ammo) # {}) =>
                  /\ character.current_weapon = c0.current_weapon
                  /\ SentOfType(sent, "ShowWeapon") = {}

\* The bot switches from its empty first weapon to the third one, the
\* second being empty too.
C30_Witness ==
    /\ phase = "weapon_selected"
    /\ probe.before.current_weapon = 0
    /\ character.current_weapon = 2
    /\ Cardinality(SentOfType(sent, "ShowWeapon")) = 2

\* C31: try_shoot succeeds only with ammo > 0 and at least the weapon's
\* shoot_interval elapsed since the recorded shot time; a success lowers
\* the ammo by one, records the shot time and emits one shot sound; a
\* refusal leaves the weapon as it was and emits nothing; the ammo never
\* drops below 0.
C31_TryShoot ==
    /\ probe.weapon.ammo >= 0
    /\ phase = "shot" =>
        LET w0 == probe.before
            w == probe.weapon
        IN  /\ probe.result = Some(TRUE) =>
                  /\ w0.ammo > 0
                  /\ time.elapsed - w0.last_shot_time
                        >= ShootInterval(w0.kind)
                  /\ w.ammo = w0.ammo - 1
                  /\ w.last_shot_time = time.elapsed
                  /\ Len(sent) = 1
                  /\ sent[1].type = "PlaySound" /\ sent[1].note = "shot"
            /\ probe.result = Some(FALSE) =>
                  /\ w = w0
                  /\ sent = << >>

\* A second shot succeeds exactly one interval after the first one.
C31_Witness ==
    /\ phase = "shot"
    /\ probe.result = Some(TRUE)
    /\ probe.before.last_shot_time > 0
    /\ time.elapsed - probe.before.last_shot_time
          = ShootInterval(probe.weapon.kind)
    /\ probe.weapon.ammo = 0

\* C32: with the spine joint missing, Bot::new succeeds when the model and
\* the clips load (a warning is all there is), and every later
\* aim_vertically writes no rotation to any scene node while the pitch
\* takes the tick's target and turns towards it.
C32_MissingSpine ==
    (phase # "construct" /\ "spine" \notin probe.inputs.bones) =>
        /\ probe.inputs.available = Resources =>
              /\ probe.outputs[1].ok
              /\ probe.outputs[1].warned
              /\ probe.outputs[1].spine = NONE
        /\ \A n \in AimNodes \ {"pivot"} : probe.rotation[n] = None
        /\ phase = "aimed_vertically" =>
              LET b0 == probe.before[1]
                  b == probe.outputs[1]
                  target == WrapAngle(probe.look[1].polar - 90
                                        + VAimAngleHack(bot.kind))
              IN  /\ probe.writes = {}
                  /\ probe.rotation = [n \in AimNodes |->
                        IF n = "pivot" THEN probe.rotation[n] ELSE None]
                  /\ b.pitch.target = target
                  /\ b0.pitch.angle # target => b.pitch.angle # b0.pitch.angle

\* A bot without a spine has turned its pitch twice; only the pivot has
\* ever been rotated.
C32_Witness ==
    /\ phase = "aimed_vertically"
    /\ probe.outputs[1].spine = NONE
    /\ probe.ticks = 2
    /\ probe.outputs[1].pitch.angle # 0
    /\ probe.outputs[1].pitch.angle # probe.before[1].pitch.angle
    /\ probe.rotation["pivot"] # None
    /\ probe.rotation["spine"] = None

\* The DamageActor messages of an update that name the actor.
DamageOf(actor) ==
    {i \in SentOfType(sent, "DamageActor") : sent[i].subject = actor}

\* C33: one Projectile::update sends an actor it hit, by the ray test or
\* by contacts of its body, at most one DamageActor message.
C33_OneDamagePerActor ==
    phase = "updated" =>
        \A k \in DOMAIN ProjectileActors :
            Cardinality(DamageOf(ProjectileActors[k].handle)) <= 1

\* C34: the Locomotion Machine never takes Walk->Jump: a jump is asked
\* for only in close combat, where Walk->Idle, declared before it, is the
\* transition that fires in Walk; the Jump state is entered from Idle
\* only.
C34_NoWalkToJump ==
    [][(UpdateStep /\ tick'.branch = "full") =>
          LET fired == tick'.fired.locomotion
          IN  /\ tick'.need_jump => tick'.in_close_combat
              /\ fired # 0 =>
                    /\ LocomotionTransitions[fired].name # "Walk->Jump"
                    /\ LocomotionTransitions[fired].dest = "Jump" =>
                          locomotion_machine.active_state = "Idle"
              /\ (locomotion_machine.active_state = "Walk"
                  /\ locomotion_machine.active_transition = 0
                  /\ tick'.need_jump) =>
                    /\ fired # 0
                    /\ LocomotionTransitions[fired].name = "Walk->Idle"]_vars

\* A jump is asked for on a tick that began in Walk: Walk->Idle has fired.
C34_Witness ==
    /\ phase = "messages"
    /\ tick.branch = "full"
    /\ tick.need_jump
    /\ tick.fired.locomotion # 0
    /\ LocomotionTransitions[tick.fired.locomotion].name = "Walk->Idle"

\* C35: a full-update tick that finds the health where the last tick left
\* it, as after damage the armor absorbed whole, detects no damage: no
\* transition into HitReaction fires, the hit-reaction clip is not rewound
\* and the aim-lock cooldown is not set.  A bot starts with 100 armor.
C35_AbsorbedDamageUnnoticed ==
    /\ CharacterNew.armor = 100
    /\ [][(UpdateStep /\ tick'.branch = "full"
           /\ character.health = bot.last_health) =>
             /\ ~tick'.was_damaged
             /\ (tick'.fired.combat # 0 =>
                    CombatTransitions[tick'.fired.combat].dest
                        # "HitReaction")
             /\ animations'.hit_reaction_time = animations.hit_reaction_time
             /\ bot'.restoration_time <= bot.restoration_time
             /\ bot'.restoration_time # 800 - time.delta
             /\ observed'.hit_time = observed.hit_time]_vars

\* The armor has taken a hit whole and the tick after it saw nothing.
C35_Witness ==
    /\ phase = "messages"
    /\ tick.branch = "full"
    /\ character.armor < 100
    /\ character.health = 100
    /\ ~tick.was_damaged
    /\ observed.hit_time = None
    /\ bot.last_health = 100

\* C36: a dead bot stays dead: no step brings a health <= 0 back above 0,
\* and once the Dying Machine has been evaluated (the dying-only branch has
\* run) every later update takes the dying-only branch.
C36_DeadStaysDead ==
    [][/\ IsDead(character.health) => IsDead(character'.health)
       /\ (UpdateStep
           /\ dying_machine # MachineNew(DyingStates, DyingEntry)) =>
             tick'.branch = "dying"]_vars

\* C37: after any calls of add_weapon, next_weapon, prev_weapon and
\* set_current_weapon the current-weapon index is an index of the weapon
\* list when the list is not empty, and current_weapon() is the none
\* handle only when the list is empty.
C37_CurrentWeaponIndexValid ==
    /\ character.weapons # << >> =>
          character.current_weapon \in 0..(Len(character.weapons) - 1)
    /\ CurrentWeapon(character) = NONE => character.weapons = << >>

\* next_weapon was called with the last weapon current: the index stayed.
C37_Witness ==
    /\ phase = "next_weapon"
    /\ Len(character.weapons) = 3
    /\ probe.before.current_weapon = 2
    /\ character.current_weapon = 2

\* C38: for a character with a sender, the ShowWeapon messages applied in
\* order leave the current weapon visible and every other owned weapon
\* hidden; a switch sends the hide of the old weapon before the show of the
\* new one.
C38_OnlyCurrentVisible ==
    /\ \A i \in DOMAIN character.weapons :
          probe.visible[character.weapons[i]]
              <=> (character.weapons[i] = CurrentWeapon(character))
    /\ (phase \in {"next_weapon", "prev_weapon", "set_current_weapon"}
        /\ sent # << >>) =>
          /\ Len(sent) = 2
          /\ sent[1] = Msg("ShowWeapon", CurrentWeapon(probe.before), 0, "hide")
          /\ sent[2] = Msg("ShowWeapon", CurrentWeapon(character), 0, "show")

\* prev_weapon has switched from the third weapon to the second.
C38_Witness ==
    /\ phase = "prev_weapon"
    /\ Len(character.weapons) = 3
    /\ probe.before.current_weapon = 2
    /\ character.current_weapon = 1
    /\ probe.visible[character.weapons[2]]
    /\ ~probe.visible[character.weapons[3]]
    /\ ~probe.visible[character.weapons[1]]

\* The projectiles in the container.
InPool(id) == \E k \in DOMAIN probe.pool : probe.pool[k].id = id

\* What holds of every projectile at any time: it has emitted its impact
\* effect and sound once if it died and never otherwise, on the update it
\* died in; dead, it is out of the container and of the scene and was not
\* updated again; in the container it has lifetime left.
ProjectileEnded(log, pool, scene, messages) ==
    \A id \in ProjectileIds :
        LET l == log[id]
            in_pool == \E k \in DOMAIN pool : pool[k].id = id
        IN  /\ l.effects = (IF l.died THEN 1 ELSE 0)
            /\ l.sounds = (IF l.died THEN 1 ELSE 0)
            /\ ~l.updated_dead
            /\ l.died =>
                  /\ ~in_pool
                  /\ ProjectileModel(id) \notin scene.nodes
                  /\ \A b \in scene.bodies : b[2] # id
            /\ l.died_now =>
                  /\ CountOf(messages, "CreateEffect", id) = 1
                  /\ CountOf(messages, "PlaySound", id) = 1
            /\ in_pool =>
                  \A k \in DOMAIN pool :
                      pool[k].id = id => pool[k].lifetime > 0

\* C39: a projectile emits its impact effect and its impact sound once,
\* on the update that brings its lifetime to 0 or below; that same
\* container update cleans it up and removes it; it is not updated after
\* that; and every projectile in the container is removed in the end.
C39_ProjectileEndsOnce ==
    /\ ProjectileEnded(probe.log, probe.pool, probe.scene, sent)
    /\ [][ProjectileEnded(probe'.log, probe'.pool, probe'.scene, sent')]_vars
    /\ \A id \in ProjectileIds : InPool(id) ~> ~InPool(id)

\* The projectile has ended on this update: its effect and sound are in
\* the channel, the container is empty and the scene is as before the shot.
C39_Witness ==
    /\ phase = "flying"
    /\ probe.spawned = 1
    /\ probe.log[1].died_now
    /\ probe.pool = << >>
    /\ probe.scene = ProjectileScene
    /\ CountOf(sent, "CreateEffect", 1) = 1
    /\ CountOf(sent, "PlaySound", 1) = 1


\* C40: a Bot::new that returned Err left the scene as it found it: no
\* node, body or animation made by the failed construction remains.
C40_FailedNewLeavesScene ==
    phase = "failed" => probe.scene = SceneNew

====
